---- MODULE Spec2Model ----
(***************************************************************************)
(* A model of the routing / fallback engine (handler.ProxyServer) and of   *)
(* the rate limiter (ratelimit.RateLimitMiddleware) of tokentracer-proxy.  *)
(*                                                                         *)
(* Spec    one request driven through ProxyHandler over a stored alias /   *)
(*         provider-key configuration drawn in Init.                       *)
(* SpecRL  concurrent requests driven through RateLimitMiddleware, with a  *)
(*         clock, the override cache and the minute-counter map.           *)
(***************************************************************************)
EXTENDS Integers, Sequences, FiniteSets, TLC

VARIABLES
    \* ---- persistent store (db/schema.sql) ----
    model_aliases,   \* id -> row of model_aliases
    provider_keys,   \* id -> row of provider_keys
    request_logs,    \* sequence of inserted request_logs rows
    \* ---- one ProxyHandler call ----
    pc,              \* position of the handler
    userID,          \* auth.KeyUser of the request context (NoID: absent)
    openAIReq,       \* decoded request body
    i,               \* loop counter of the fallback loop
    currentModel,    \* alias name resolved on the current hop
    lastErr,         \* TRUE iff lastErr != nil
    alias,           \* row returned by GetModelAlias on this hop
    providerType,    \* provider type returned by GetProviderKey on this hop
    reqCopy,         \* request forwarded on this hop
    openAIResp,      \* response returned by the last Send
    status,          \* status written to the caller (NoStatus: none yet)
    body,            \* body written to the caller
    logTask,         \* the detached logging goroutine
    hops,            \* history: one record per upstream Send issued
    cfgErr,          \* history: the configuration error that ended the request
    reqCtx,          \* r.Context() of the request: "live" or "cancelled"
    \* ---- rate limiter (pkg/ratelimit/middleware.go) ----
    now,             \* wall clock, in ticks
    users,           \* id -> rate_limit_minute, rate_limit_daily of the users row
    defaultLimits,   \* defaultMinuteLimit, defaultDailyLimit (set by init())
    limitsCache,     \* user -> cached override, for the users cached
    minuteBuckets,   \* key <<user, minute>> -> count, for the keys present
    otherBuckets,    \* minute -> number of keys held by users outside Users
    bucketMu,        \* holder of bucketMu (NoReq: free)
    requestsToday,   \* user -> rows of request_logs with created_at >= CURRENT_DATE
    rl,              \* worker -> state of its RateLimitMiddleware call
    arrivals,        \* history: requests that reached the middleware so far
    admitted,        \* history: key -> the limits of the requests admitted under it
    \* ---- management API (pkg/management) ----
    model_aliases_id_seq,  \* last value of the sequence behind model_aliases.id
    mgmt,            \* history: the last management call and its answer
    listCall,        \* one Provider.ListModels call: its inputs and what it returned
    polling          \* main() and the model polling it starts (management/cron.go)

proxyVars == <<model_aliases, provider_keys, request_logs, pc, userID, openAIReq, i,
               currentModel, lastErr, alias, providerType, reqCopy, openAIResp,
               status, body, logTask, hops, cfgErr, reqCtx>>
rlVars == <<now, users, defaultLimits, limitsCache, minuteBuckets, otherBuckets, bucketMu,
            requestsToday, rl, arrivals, admitted>>
mgmtVars == <<model_aliases_id_seq, mgmt, listCall, polling>>
vars == <<proxyVars, rlVars, mgmtVars, reqCtx>>

(***************************************************************************)
(* Values                                                                  *)
(***************************************************************************)
NoID == 0                \* SQL NULL / nil *int (ids are SERIAL, >= 1)
NIL == "<nil>"           \* nil *string
NoStatus == 0            \* nothing written to the caller yet

StatusOK == 200
StatusBadRequest == 400
StatusUnauthorized == 401
StatusNotFound == 404
StatusTooManyRequests == 429
StatusInternalServerError == 500
StatusBadGateway == 502
StatusLoopDetected == 508

maxDepth == 2            \* ProxyHandler: maxDepth := 2

Users == {1, 2}          \* owners of stored rows
ReqUser == 1             \* the authenticated caller
AliasIds == {1, 2, 3}    \* ids of the stored model_aliases rows
SupportedProviders == {"anthropic", "openai", "gemini"}

\* provider_keys: one key of the caller per supported provider, one of the
\* caller with a provider type the handler does not know, one of another user.
ProviderKeysTable ==
    (1 :> [user_id |-> 1, provider |-> "anthropic"]) @@
    (2 :> [user_id |-> 1, provider |-> "openai"]) @@
    (3 :> [user_id |-> 1, provider |-> "gemini"]) @@
    (4 :> [user_id |-> 1, provider |-> "cohere"]) @@
    (5 :> [user_id |-> 2, provider |-> "anthropic"])

\* Who owns which row and under which alias name: UNIQUE(user_id, alias) holds.
\* Row 3 belongs to another user and either shares the name of row 1 or has a
\* name the caller does not have.
AliasLayouts ==
    { <<[user_id |-> 1, alias |-> "a"], [user_id |-> 1, alias |-> "b"],
        [user_id |-> 2, alias |-> "a"]>>,
      <<[user_id |-> 1, alias |-> "a"], [user_id |-> 1, alias |-> "b"],
        [user_id |-> 2, alias |-> "c"]>> }

\* target_model and light_model differ from row to row, so that the row a
\* model came from can be read off the model.
TargetModels == <<"target-1", "target-2", "target-3">>
LightModels == <<"light-1", "light-2", "light-3">>

\* Light-model policies: the schema's default (off, threshold 100, NULL) and an
\* enabled policy with threshold LightThreshold.
LightThreshold == 2
LightOff == [use_light_model |-> FALSE, light_model_threshold |-> 100, light_model |-> NIL]
LightOn(id) == [use_light_model |-> TRUE, light_model_threshold |-> LightThreshold,
                light_model |-> LightModels[id]]

\* A message content is the sequence of its characters.
Hello == <<"H", "e", "l", "l", "o">>
BeHelpful == <<"B", "e", " ", "h", "e", "l", "p", "f", "u", "l">>
Chars(n) == [k \in 1..n |-> "x"]

\* Request bodies: an alias of the caller or an unknown name; one message whose
\* estimate is below LightThreshold and one whose estimate reaches it.
RequestModels == {"a", "zz"}
RequestMessages ==
    { <<[role |-> "user", content |-> Hello]>>,
      <<[role |-> "system", content |-> BeHelpful], [role |-> "user", content |-> Hello]>> }

\* Usage (prompt_tokens, completion_tokens) an upstream may report.
UsagePairs == { <<10, 20>>, <<0, 0>> }

NoAlias == [id |-> NoID, user_id |-> NoID, alias |-> NIL, target_model |-> NIL,
            provider_key_id |-> NoID, fallback_alias_id |-> NoID,
            use_light_model |-> FALSE, light_model_threshold |-> 0, light_model |-> NIL]
NoReqCopy == [model |-> NIL, messages |-> <<>>, max_tokens |-> 0]
NoResp == [id |-> 0, model |-> NIL, choices |-> <<>>, prompt_tokens |-> 0,
           completion_tokens |-> 0, total_tokens |-> 0]
NoUpstream == [id |-> 0]  \* no body received yet
NoTask == [state |-> "none", entry |-> <<>>]

(***************************************************************************)
(* Repository reads (db.PostgresRepository)                                *)
(***************************************************************************)
\* SELECT ... FROM model_aliases WHERE user_id = $1 AND alias = $2
\* The id of the matching row, NoID when no row matches.
GetModelAlias(uid, name) ==
    LET m == {id \in DOMAIN model_aliases :
                 /\ model_aliases[id].user_id = uid
                 /\ model_aliases[id].alias = name}
    IN IF m = {} THEN NoID ELSE CHOOSE id \in m : TRUE

\* SELECT alias FROM model_aliases WHERE id = $1 (no user filter)
GetModelAliasByID(id) ==
    IF id \in DOMAIN model_aliases THEN model_aliases[id].alias ELSE NIL

\* Mutant: the key is selected by its id alone.
GetProviderKeyAnyUser(keyID, uid) ==
    IF keyID \in DOMAIN provider_keys
    THEN provider_keys[keyID].provider ELSE NIL

\* SELECT provider, encrypted_key FROM provider_keys WHERE id = $1 AND user_id = $2
GetProviderKey(keyID, uid) ==
    IF keyID \in DOMAIN provider_keys /\ provider_keys[keyID].user_id = uid
    THEN provider_keys[keyID].provider ELSE NIL

(***************************************************************************)
(* estimateTokens                                                          *)
(***************************************************************************)
RECURSIVE TotalChars(_)
TotalChars(messages) ==
    IF messages = <<>> THEN 0
    ELSE Len(Head(messages).content) + TotalChars(Tail(messages))

\* Mutant: the minimum of one token for a non-empty input is missing.
estimateTokensNoMinimum(messages) == TotalChars(messages) \div 4

estimateTokens(messages) ==
    LET totalChars == TotalChars(messages)
        tokens == totalChars \div 4
    IN IF totalChars = 0 THEN 0
       ELSE IF tokens = 0 THEN 1
       ELSE tokens

(***************************************************************************)
(* translator and provider adapters: what Send puts on the wire and what   *)
(* it returns                                                              *)
(***************************************************************************)
DefaultMaxTokens == 4096

\* ModelMap, and the model a name is mapped to (itself when not in the map)
ModelMap ==
    ("gpt-4" :> "claude-3-opus-20240229") @@
    ("gpt-4-turbo" :> "claude-3-opus-20240229") @@
    ("gpt-4o" :> "claude-3-5-sonnet-20240620") @@
    ("gpt-3.5-turbo" :> "claude-3-haiku-20240307")

\* Mutant: a name the map does not hold is replaced by a default model.
MapModelDefaulting(model) ==
    IF model \in DOMAIN ModelMap THEN ModelMap[model] ELSE "claude-3-opus-20240229"

MapModel(model) == IF model \in DOMAIN ModelMap THEN ModelMap[model] ELSE model

\* strings.TrimSpace: leading and trailing white space removed
WhiteSpace == {" ", "\n", "\t", "\r"}
TrimSpace(str) ==
    LET black == {k \in 1..Len(str) : str[k] \notin WhiteSpace}
    IN IF black = {} THEN <<>>
       ELSE SubSeq(str, CHOOSE k \in black : \A j \in black : k <= j,
                        CHOOSE k \in black : \A j \in black : k >= j)

\* for _, msg := range req.Messages { if msg.Role == "system" { systemPrompt += msg.Content + "\n" } ... }
RECURSIVE SystemPrompt(_)
SystemPrompt(messages) ==
    IF messages = <<>> THEN <<>>
    ELSE (IF Head(messages).role = "system"
          THEN Head(messages).content \o <<"\n">>
          ELSE <<>>) \o SystemPrompt(Tail(messages))

\* ... else { messages = append(messages, AnthropicMessage{msg.Role, msg.Content}) }
RECURSIVE AnthropicMessages(_)
AnthropicMessages(messages) ==
    IF messages = <<>> THEN <<>>
    ELSE (IF Head(messages).role = "system"
          THEN <<>>
          ELSE <<[role |-> Head(messages).role, content |-> Head(messages).content]>>)
         \o AnthropicMessages(Tail(messages))

\* Mutant: max_tokens is defaulted only when it is zero.
AnthropicMaxTokensNonZero(maxTokens) ==
    IF maxTokens # 0 THEN maxTokens ELSE DefaultMaxTokens

\* if req.MaxTokens > 0 { req.MaxTokens } else { DefaultMaxTokens }
AnthropicMaxTokens(maxTokens) ==
    IF maxTokens > 0 THEN maxTokens ELSE DefaultMaxTokens

\* Mutant: the system messages are left in the message list as well.
OpenAIToAnthropicRequestKeepsSystem(req) ==
    [model |-> MapModel(req.model),
     system |-> TrimSpace(SystemPrompt(req.messages)),
     messages |-> req.messages,
     max_tokens |-> AnthropicMaxTokens(req.max_tokens)]

\* translator.OpenAIToAnthropicRequest
OpenAIToAnthropicRequest(req) ==
    [model |-> MapModel(req.model),
     system |-> TrimSpace(SystemPrompt(req.messages)),
     messages |-> AnthropicMessages(req.messages),
     max_tokens |-> AnthropicMaxTokens(req.max_tokens)]

\* json.Marshal of an int field tagged omitempty: left out when 0
Omitempty(value) == IF value = 0 THEN <<>> ELSE <<value>>

\* The body Send posts upstream: the translated request for anthropic, the
\* request as it is for openai and gemini.
UpstreamBody(provider, req) ==
    IF provider = "anthropic"
    THEN LET anthropicReq == OpenAIToAnthropicRequest(req) IN
         [model |-> anthropicReq.model, system |-> anthropicReq.system,
          messages |-> anthropicReq.messages,
          max_tokens |-> Omitempty(anthropicReq.max_tokens)]
    ELSE [model |-> req.model, messages |-> req.messages,
          max_tokens |-> Omitempty(req.max_tokens)]

\* Totals an upstream of the OpenAI format may report next to a usage pair:
\* the sum, or another number.
ReportedTotals(usage) == {usage[1] + usage[2], 0}

\* Content an Anthropic upstream may answer with: a list of typed blocks. No
\* block, one text block, text blocks around a block of another type, and
\* blocks of other types only (one of them carrying a text field).
HelloThere == <<"H", "e", "l", "l", "o", " ", "t", "h", "e", "r", "e", "!">>
ContentBlocks ==
    { <<>>,
      <<[type |-> "text", text |-> HelloThere]>>,
      <<[type |-> "text", text |-> <<"t", "h", "e">>],
        [type |-> "tool_use", text |-> <<>>],
        [type |-> "text", text |-> <<>>],
        [type |-> "thinking", text |-> <<"h", "m">>],
        [type |-> "text", text |-> <<"r", "e">>]>>,
      <<[type |-> "thinking", text |-> <<"h", "m">>], [type |-> "tool_use", text |-> <<>>]>> }

\* Choices an upstream of the OpenAI format answers with.
UpstreamChoices ==
    <<[index |-> 0, role |-> "assistant", content |-> HelloThere, finish_reason |-> "stop"]>>

\* The 200 bodies an upstream may answer with: Anthropic's usage has no total.
UpstreamResponses(provider, id, model) ==
    IF provider = "anthropic"
    THEN { [id |-> id, model |-> model, content |-> blocks, stop_reason |-> "end_turn",
            input_tokens |-> usage[1], output_tokens |-> usage[2]] :
           usage \in UsagePairs, blocks \in ContentBlocks }
    ELSE UNION { { [id |-> id, model |-> model, choices |-> UpstreamChoices,
                    prompt_tokens |-> usage[1],
                    completion_tokens |-> usage[2], total_tokens |-> total] :
                   total \in ReportedTotals(usage) } : usage \in UsagePairs }

\* Mutant: the text of every block is taken, whatever its type.
RECURSIVE TextContentAnyType(_)
TextContentAnyType(blocks) ==
    IF blocks = <<>> THEN <<>>
    ELSE Head(blocks).text \o TextContentAnyType(Tail(blocks))

\* content := ""; for _, block := range resp.Content { if block.Type == "text" { content += block.Text } }
RECURSIVE TextContent(_)
TextContent(blocks) ==
    IF blocks = <<>> THEN <<>>
    ELSE (IF Head(blocks).type = "text" THEN Head(blocks).text ELSE <<>>)
         \o TextContent(Tail(blocks))

\* openAIResp.Choices = []types.OpenAIChoice{{Index: 0, Message: {"assistant", content}, FinishReason: resp.StopReason}}
AnthropicChoices(resp) ==
    <<[index |-> 0, role |-> "assistant", content |-> TextContent(resp.content),
       finish_reason |-> resp.stop_reason]>>

\* Mutant: the total is not computed (it stays at the zero value).
AnthropicToOpenAIResponseNoTotal(resp) ==
    [id |-> resp.id, model |-> resp.model, choices |-> AnthropicChoices(resp),
     prompt_tokens |-> resp.input_tokens,
     completion_tokens |-> resp.output_tokens,
     total_tokens |-> 0]

\* translator.AnthropicToOpenAIResponse
AnthropicToOpenAIResponse(resp) ==
    [id |-> resp.id, model |-> resp.model, choices |-> AnthropicChoices(resp),
     prompt_tokens |-> resp.input_tokens,
     completion_tokens |-> resp.output_tokens,
     total_tokens |-> resp.input_tokens + resp.output_tokens]

\* What Send returns for a 200 body: the translation for anthropic, the
\* decoded body for openai and gemini.
DecodeResponse(provider, resp) ==
    IF provider = "anthropic" THEN AnthropicToOpenAIResponse(resp) ELSE resp

(***************************************************************************)
(* ProxyServer.ProxyHandler                                                *)
(***************************************************************************)
storeVars == <<model_aliases, provider_keys>>
hopVars == <<alias, providerType, reqCopy, openAIResp>>

\* A repository call made with r.Context() succeeds or fails; it fails when
\* the context is cancelled.
RepoOutcomes == IF reqCtx = "cancelled" THEN {FALSE} ELSE BOOLEAN

\* http.Error(w, ..., code); return
Respond(code) ==
    /\ status' = code
    /\ pc' = "done"

\* r.Context().Value(auth.KeyUser): absent or the caller when the handler is
\* called on its own, the user the middleware read when it is called by it.
ContextUsers ==
    LET serving == {w \in DOMAIN rl : rl[w].pc = "serving"}
    IN IF serving = {} THEN {NoID, ReqUser} ELSE {rl[w].user : w \in serving}

\* 0./1. user from the context, decode the body, enter the loop.
Start ==
    /\ pc = "start"
    /\ \E ctxUser \in ContextUsers, decodeOK \in BOOLEAN :
          IF ctxUser = NoID
          THEN Respond(StatusUnauthorized) /\ UNCHANGED <<userID, currentModel>>
          ELSE IF ~decodeOK
          THEN Respond(StatusBadRequest) /\ userID' = ctxUser /\ UNCHANGED currentModel
          ELSE /\ userID' = ctxUser
               /\ currentModel' = openAIReq.model
               /\ pc' = "loop"
               /\ UNCHANGED status
    /\ UNCHANGED <<storeVars, request_logs, openAIReq, i, lastErr, hopVars, body,
                   logTask, hops, cfgErr, rlVars, mgmtVars, reqCtx>>

\* Mutant: the loop admits one hop too many.
LoopConditionOffByOne == i <= maxDepth

\* i < maxDepth
LoopCondition == i < maxDepth

\* for i := 0; i < maxDepth; i++
LoopHead ==
    /\ pc = "loop"
    /\ pc' = IF LoopCondition THEN "alias" ELSE "exit"
    /\ UNCHANGED <<storeVars, request_logs, userID, openAIReq, i, currentModel, lastErr,
                   hopVars, status, body, logTask, hops, cfgErr, rlVars, mgmtVars, reqCtx>>

\* Mutant: the return after the 404 is missing and the handler goes on.
ResolveAliasNoReturn ==
    /\ pc = "alias"
    /\ \E dbOK \in RepoOutcomes :
          LET id == GetModelAlias(userID, currentModel) IN
          IF dbOK /\ id # NoID
          THEN /\ alias' = [id |-> id] @@ model_aliases[id]
               /\ pc' = "key"
               /\ UNCHANGED <<status, cfgErr>>
          ELSE /\ status' = StatusNotFound
               /\ pc' = "key"
               /\ cfgErr' = "alias"
               /\ UNCHANGED alias
    /\ UNCHANGED <<storeVars, request_logs, userID, openAIReq, i, currentModel, lastErr,
                   providerType, reqCopy, openAIResp, body, logTask, hops, rlVars, mgmtVars, reqCtx>>

\* alias, err := s.Repo.GetModelAlias(ctx, userID, currentModel)
ResolveAlias ==
    /\ pc = "alias"
    /\ \E dbOK \in RepoOutcomes :
          LET id == GetModelAlias(userID, currentModel) IN
          IF dbOK /\ id # NoID
          THEN /\ alias' = [id |-> id] @@ model_aliases[id]
               /\ pc' = "key"
               /\ UNCHANGED <<status, cfgErr>>
          ELSE /\ Respond(StatusNotFound)
               /\ cfgErr' = "alias"
               /\ UNCHANGED alias
    /\ UNCHANGED <<storeVars, request_logs, userID, openAIReq, i, currentModel, lastErr,
                   providerType, reqCopy, openAIResp, body, logTask, hops, rlVars, mgmtVars, reqCtx>>

\* Mutant: a missing provider key is treated like a failed Send (and so may
\* move on to the fallback alias).
FetchProviderKeyRetryable ==
    /\ pc = "key"
    /\ \E dbOK \in RepoOutcomes :
          LET t == GetProviderKey(alias.provider_key_id, userID) IN
          IF dbOK /\ t # NIL
          THEN /\ providerType' = t
               /\ pc' = "provider"
          ELSE /\ pc' = "err"
               /\ UNCHANGED providerType
    /\ UNCHANGED <<storeVars, request_logs, userID, openAIReq, i, currentModel, lastErr,
                   alias, reqCopy, openAIResp, status, cfgErr, body, logTask, hops, rlVars, mgmtVars, reqCtx>>

\* providerType, _, err := s.Repo.GetProviderKey(ctx, alias.ProviderKeyID, userID)
FetchProviderKey ==
    /\ pc = "key"
    /\ \E dbOK \in RepoOutcomes :
          LET t == GetProviderKey(alias.provider_key_id, userID) IN
          IF dbOK /\ t # NIL
          THEN /\ providerType' = t
               /\ pc' = "provider"
               /\ UNCHANGED <<status, cfgErr>>
          ELSE /\ Respond(StatusInternalServerError)
               /\ cfgErr' = "key"
               /\ UNCHANGED providerType
    /\ UNCHANGED <<storeVars, request_logs, userID, openAIReq, i, currentModel, lastErr,
                   alias, reqCopy, openAIResp, body, logTask, hops, rlVars, mgmtVars, reqCtx>>

\* Mutant: the light model is also taken at tokens == threshold.
ForwardedModelInclusive(a, messages) ==
    IF /\ a.use_light_model
       /\ a.light_model # NIL
       /\ a.light_model # ""
       /\ estimateTokens(messages) <= a.light_model_threshold
    THEN a.light_model
    ELSE a.target_model

\* The model placed in reqCopy: the target model, or the light model when the
\* alias enables it, names one, and the estimate is below the threshold.
ForwardedModel(a, messages) ==
    IF /\ a.use_light_model
       /\ a.light_model # NIL
       /\ a.light_model # ""
       /\ estimateTokens(messages) < a.light_model_threshold
    THEN a.light_model
    ELSE a.target_model

\* Mutant: reqCopy is built once, on the first hop, and sent again as it is
\* on the fallback hop.
SelectProviderOnce ==
    /\ pc = "provider"
    /\ IF providerType \in SupportedProviders
       THEN /\ reqCopy' = IF reqCopy = NoReqCopy
                          THEN [openAIReq EXCEPT
                                  !.model = ForwardedModel(alias, openAIReq.messages)]
                          ELSE reqCopy
            /\ pc' = "send"
            /\ UNCHANGED <<status, cfgErr>>
       ELSE /\ Respond(StatusBadRequest)
            /\ cfgErr' = "provider"
            /\ UNCHANGED reqCopy
    /\ UNCHANGED <<storeVars, request_logs, userID, openAIReq, i, currentModel, lastErr,
                   alias, providerType, openAIResp, body, logTask, hops, rlVars, mgmtVars, reqCtx>>

\* switch providerType { ... }; reqCopy := openAIReq; reqCopy.Model = ...
SelectProvider ==
    /\ pc = "provider"
    /\ IF providerType \in SupportedProviders
       THEN /\ reqCopy' = [openAIReq EXCEPT !.model = ForwardedModel(alias, openAIReq.messages)]
            /\ pc' = "send"
            /\ UNCHANGED <<status, cfgErr>>
       ELSE /\ Respond(StatusBadRequest)
            /\ cfgErr' = "provider"
            /\ UNCHANGED reqCopy
    /\ UNCHANGED <<storeVars, request_logs, userID, openAIReq, i, currentModel, lastErr,
                   alias, providerType, openAIResp, body, logTask, hops, rlVars, mgmtVars, reqCtx>>

\* Mutant: Send is issued with a context of its own.
SendContextBackground == "background"

\* prov.Send(r.Context(), reqCopy): the context the upstream request is built
\* with (http.NewRequestWithContext(ctx, ...) in every adapter).
SendContext == "request"

\* An upstream call made with a cancelled context is aborted by the transport.
Aborted(c) == c = "request" /\ reqCtx = "cancelled"

\* Mutant: the Send is dispatched without being awaited and the handler goes
\* on as if it had failed.
ProvSendSpeculative ==
    /\ pc = "send"
    /\ hops' = Append(hops, [i |-> i, alias |-> currentModel, row |-> alias.id,
                             key |-> alias.provider_key_id, provider |-> providerType,
                             model |-> reqCopy.model, ctx |-> SendContext,
                             result |-> IF Aborted(SendContext) THEN "cancelled"
                                                                ELSE "pending",
                             sent |-> UpstreamBody(providerType, reqCopy),
                             received |-> NoUpstream])
    /\ pc' = IF i = 0 THEN "err" ELSE "await"
    /\ UNCHANGED <<storeVars, request_logs, userID, openAIReq, i, currentModel, lastErr,
                   hopVars, status, body, logTask, cfgErr, rlVars, mgmtVars, reqCtx>>

\* prov.Send(r.Context(), reqCopy) is issued.
ProvSend ==
    /\ pc = "send"
    /\ hops' = Append(hops, [i |-> i, alias |-> currentModel, row |-> alias.id,
                             key |-> alias.provider_key_id, provider |-> providerType,
                             model |-> reqCopy.model, ctx |-> SendContext,
                             result |-> IF Aborted(SendContext) THEN "cancelled"
                                                                ELSE "pending",
                             sent |-> UpstreamBody(providerType, reqCopy),
                             received |-> NoUpstream])
    /\ pc' = "await"
    /\ UNCHANGED <<storeVars, request_logs, userID, openAIReq, i, currentModel, lastErr,
                   hopVars, status, body, logTask, cfgErr, rlVars, mgmtVars, reqCtx>>

\* prov.Send returns a response or an error.
SendReturn ==
    /\ pc = "await"
    /\ \/ \E resp \in UpstreamResponses(providerType, Len(hops),
                                         hops[Len(hops)].sent.model) :
             /\ hops[Len(hops)].result = "pending"
             /\ openAIResp' = DecodeResponse(providerType, resp)
             /\ hops' = [hops EXCEPT ![Len(hops)].result = "ok",
                                     ![Len(hops)].received = resp]
             /\ pc' = "ok"
       \/ /\ hops' = [hops EXCEPT ![Len(hops)].result =
                                        IF @ = "cancelled" THEN @ ELSE "err"]
          /\ pc' = "err"
          /\ UNCHANGED openAIResp
    /\ UNCHANGED <<storeVars, request_logs, userID, openAIReq, i, currentModel, lastErr,
                   alias, providerType, reqCopy, status, body, logTask, cfgErr, rlVars, mgmtVars, reqCtx>>

\* Mutant: the continue branch does not record the error in lastErr.
FallbackForgetsErr ==
    /\ currentModel' = GetModelAliasByID(alias.fallback_alias_id)
    /\ lastErr' = lastErr
    /\ i' = i + 1
    /\ pc' = "loop"
    /\ UNCHANGED status

\* currentModel = fallbackAliasName; lastErr = err; continue
Fallback ==
    /\ currentModel' = GetModelAliasByID(alias.fallback_alias_id)
    /\ lastErr' = TRUE
    /\ i' = i + 1
    /\ pc' = "loop"
    /\ UNCHANGED status

\* Mutant: a failed Send without a usable fallback is retried on the same alias.
HandleSendErrorRetry ==
    /\ pc = "err"
    /\ \E dbOK \in RepoOutcomes :
          IF /\ alias.fallback_alias_id # NoID
             /\ dbOK
             /\ GetModelAliasByID(alias.fallback_alias_id) # NIL
          THEN Fallback
          ELSE /\ lastErr' = TRUE
               /\ i' = i + 1
               /\ pc' = "loop"
               /\ UNCHANGED <<currentModel, status>>
    /\ UNCHANGED <<storeVars, request_logs, userID, openAIReq, hopVars, body, logTask,
                   hops, cfgErr, rlVars, mgmtVars, reqCtx>>

\* if err != nil { if alias.FallbackAliasID != nil { ... continue } ... 502 }
HandleSendError ==
    /\ pc = "err"
    /\ \E dbOK \in RepoOutcomes :
          IF /\ alias.fallback_alias_id # NoID
             /\ dbOK
             /\ GetModelAliasByID(alias.fallback_alias_id) # NIL
          THEN Fallback
          ELSE /\ Respond(StatusBadGateway)
               /\ UNCHANGED <<currentModel, lastErr, i>>
    /\ UNCHANGED <<storeVars, request_logs, userID, openAIReq, hopVars, body, logTask,
                   hops, cfgErr, rlVars, mgmtVars, reqCtx>>

\* Mutant: the log records the alias the caller asked for.
LogEntryRequestedAlias ==
    [user_id |-> userID, alias_used |-> openAIReq.model, provider_used |-> providerType,
     model_used |-> reqCopy.model, input_tokens |-> openAIResp.prompt_tokens,
     output_tokens |-> openAIResp.completion_tokens, status_code |-> StatusOK]

\* Mutant: the log records the alias's target model, whatever was forwarded.
LogEntryTargetModel ==
    [user_id |-> userID, alias_used |-> currentModel, provider_used |-> providerType,
     model_used |-> alias.target_model, input_tokens |-> openAIResp.prompt_tokens,
     output_tokens |-> openAIResp.completion_tokens, status_code |-> StatusOK]

\* The arguments the logging goroutine is started with.
LogEntry ==
    [user_id |-> userID, alias_used |-> currentModel, provider_used |-> providerType,
     model_used |-> reqCopy.model, input_tokens |-> openAIResp.prompt_tokens,
     output_tokens |-> openAIResp.completion_tokens, status_code |-> StatusOK]

\* Success: json.NewEncoder(w).Encode(openAIResp) writes 200 and the body.
WriteResponse ==
    /\ pc = "ok"
    /\ body' = openAIResp
    /\ status' = StatusOK
    /\ pc' = "log"
    /\ UNCHANGED <<storeVars, request_logs, userID, openAIReq, i, currentModel, lastErr,
                   hopVars, logTask, hops, cfgErr, rlVars, mgmtVars, reqCtx>>

\* go func(...) {...}(userID, providerType, reqCopy.Model, ...); return
\* The goroutine is started and the handler returns without waiting for it.
StartLogging ==
    /\ pc = "log"
    /\ logTask' = [state |-> "pending", entry |-> LogEntry]
    /\ pc' = "done"
    /\ UNCHANGED <<storeVars, request_logs, userID, openAIReq, i, currentModel, lastErr,
                   hopVars, status, body, hops, cfgErr, rlVars, mgmtVars, reqCtx>>

\* Mutant: the two statuses after the loop are swapped.
ExitStatusSwapped == IF lastErr THEN StatusLoopDetected ELSE StatusBadGateway

\* After the loop: 502 when lastErr != nil, else 508.
ExitStatus == IF lastErr THEN StatusBadGateway ELSE StatusLoopDetected

LoopExit ==
    /\ pc = "exit"
    /\ Respond(ExitStatus)
    /\ UNCHANGED <<storeVars, request_logs, userID, openAIReq, i, currentModel, lastErr,
                   hopVars, body, logTask, hops, cfgErr, rlVars, mgmtVars, reqCtx>>

\* request_logs rows of today per user, after a row of uid was inserted (the
\* limiter counts them for the users it knows).
CountedToday(uid) ==
    IF uid \in DOMAIN requestsToday
    THEN [requestsToday EXCEPT ![uid] = @ + 1]
    ELSE requestsToday

\* Mutant: a failed insert is reported to the caller.
InsertRequestLogSurfaces ==
    /\ logTask.state = "pending"
    /\ \E dbOK \in BOOLEAN :
          /\ request_logs' = IF dbOK THEN Append(request_logs, logTask.entry) ELSE request_logs
          /\ requestsToday' = IF dbOK THEN CountedToday(logTask.entry.user_id)
                                      ELSE requestsToday
          /\ status' = IF dbOK THEN status ELSE StatusInternalServerError
    /\ logTask' = [logTask EXCEPT !.state = "finished"]
    /\ UNCHANGED <<storeVars, pc, userID, openAIReq, i, currentModel, lastErr, hopVars,
                   body, hops, cfgErr, mgmtVars, now, users, defaultLimits, limitsCache,
                   minuteBuckets, otherBuckets, bucketMu, rl, arrivals, admitted,
                   reqCtx>>

\* go func(...) { s.Repo.InsertRequestLog(context.Background(), ...) }
InsertRequestLog ==
    /\ logTask.state = "pending"
    /\ \E dbOK \in BOOLEAN :
          /\ request_logs' = IF dbOK THEN Append(request_logs, logTask.entry) ELSE request_logs
          /\ requestsToday' = IF dbOK THEN CountedToday(logTask.entry.user_id)
                                      ELSE requestsToday
    /\ logTask' = [logTask EXCEPT !.state = "finished"]
    /\ UNCHANGED <<storeVars, pc, userID, openAIReq, i, currentModel, lastErr, hopVars,
                   status, body, hops, cfgErr, mgmtVars, now, users, defaultLimits,
                   limitsCache, minuteBuckets, otherBuckets, bucketMu, rl, arrivals,
                   admitted, reqCtx>>

(***************************************************************************)
(* Management API state while no management call is studied                *)
(***************************************************************************)
NoCall == [op |-> "none", user |-> NoID, alias |-> NIL, body |-> <<>>,
           status |-> NoStatus, calls |-> 0]

NoListCall == [state |-> "none"]

NoPolling == [main |-> "none"]

MgmtIdle ==
    /\ model_aliases_id_seq = 0
    /\ mgmt = NoCall
    /\ listCall = NoListCall
    /\ polling = NoPolling

(***************************************************************************)
(* Rate limiter state while only the handler is studied                    *)
(***************************************************************************)
RLIdle ==
    /\ now = 0
    /\ users = <<>>
    /\ defaultLimits = [minute |-> 0, daily |-> 0]
    /\ limitsCache = <<>>
    /\ minuteBuckets = <<>>
    /\ otherBuckets = <<>>
    /\ bucketMu = NoID
    /\ requestsToday = <<>>
    /\ rl = <<>>
    /\ arrivals = 0
    /\ admitted = <<>>

(***************************************************************************)
(* Spec: one request through ProxyHandler                                  *)
(***************************************************************************)
Light(id, on) == IF on THEN LightOn(id) ELSE LightOff

AliasTables ==
    UNION { { [id \in AliasIds |->
                 IF layout[id].user_id = ReqUser
                 THEN [user_id |-> layout[id].user_id, alias |-> layout[id].alias,
                       target_model |-> TargetModels[id],
                       provider_key_id |-> f[id].key,
                       fallback_alias_id |-> f[id].fallback,
                       use_light_model |-> Light(id, f[id].light).use_light_model,
                       light_model_threshold |-> Light(id, f[id].light).light_model_threshold,
                       light_model |-> Light(id, f[id].light).light_model]
                 ELSE [user_id |-> layout[id].user_id, alias |-> layout[id].alias,
                       target_model |-> TargetModels[id],
                       provider_key_id |-> 5,
                       fallback_alias_id |-> NoID,
                       use_light_model |-> FALSE,
                       light_model_threshold |-> 100,
                       light_model |-> NIL]] :
              f \in [ {id \in AliasIds : layout[id].user_id = ReqUser} ->
                      [key : DOMAIN ProviderKeysTable,
                       fallback : {NoID} \cup AliasIds,
                       light : BOOLEAN] ] } : layout \in AliasLayouts }

Init ==
    /\ model_aliases \in AliasTables
    /\ provider_keys = ProviderKeysTable
    /\ request_logs = <<>>
    /\ pc = "start"
    /\ userID = NoID
    /\ openAIReq \in [model : RequestModels, messages : RequestMessages, max_tokens : {0}]
    /\ i = 0
    /\ currentModel = NIL
    /\ lastErr = FALSE
    /\ alias = NoAlias
    /\ providerType = NIL
    /\ reqCopy = NoReqCopy
    /\ openAIResp = NoResp
    /\ status = NoStatus
    /\ body = NoResp
    /\ logTask = NoTask
    /\ hops = <<>>
    /\ cfgErr = "none"
    /\ reqCtx = "live"
    /\ RLIdle
    /\ MgmtIdle

Next ==
    \/ Start
    \/ LoopHead
    \/ ResolveAlias
    \/ FetchProviderKey
    \/ SelectProvider
    \/ ProvSend
    \/ SendReturn
    \/ HandleSendError
    \/ WriteResponse
    \/ StartLogging
    \/ LoopExit
    \/ InsertRequestLog

Spec == Init /\ [][Next]_vars

(***************************************************************************)
(* Properties of the fallback loop                                         *)
(***************************************************************************)
Hop(k) == hops[k]
HopRow(k) == model_aliases[hops[k].row]
AllHopsFailed == \A k \in 1..Len(hops) : hops[k].result = "err"
InCycle ==
    /\ model_aliases[1].fallback_alias_id = 2
    /\ model_aliases[2].fallback_alias_id = 1

\* C1: whatever the stored aliases (fallback cycles and self references
\* included) and whatever the upstreams answer, one ProxyHandler call issues at
\* most 2 Sends: the first on loop index 0, the second on loop index 1.
C1_AtMostTwoSends ==
    /\ Len(hops) <= 2
    /\ \A k \in 1..Len(hops) : hops[k].i = k - 1

C1_Witness ==
    /\ pc = "done"
    /\ InCycle
    /\ Len(hops) = 2
    /\ hops[1].row = 1
    /\ hops[2].row = 2

\* Every alias of the chain has a fallback pointing further and every attempt
\* failed: maxDepth hops, each failed, each on an alias with a fallback reference.
EveryHopFailedAndPointsFurther ==
    /\ Len(hops) = maxDepth
    /\ \A k \in 1..Len(hops) :
          /\ hops[k].result = "err"
          /\ HopRow(k).fallback_alias_id # NoID

\* C2 as stated: such a request ends with 508 (MaxFallbackDepthReached).
C2_EndsWith508 ==
    (pc = "done" /\ EveryHopFailedAndPointsFurther) => status = StatusLoopDetected

\* C2 as amended: such a request issues no further Send and ends with 502
\* (AllFallbacksFailed), the last error having been recorded in lastErr.
C2_EndsWith502 ==
    EveryHopFailedAndPointsFurther =>
        /\ pc \in {"err", "loop", "exit", "done"}
        /\ pc = "done" => status = StatusBadGateway

C2_Witness ==
    /\ pc = "done"
    /\ InCycle
    /\ EveryHopFailedAndPointsFurther
    /\ i = maxDepth
    /\ status = StatusBadGateway

\* The primary Send failed and the Send on the fallback alias succeeded.
FallbackSucceeded ==
    /\ Len(hops) = 2
    /\ hops[1].result = "err"
    /\ hops[2].result = "ok"

\* C3: when the primary Send fails and the Send on the resolved fallback alias
\* succeeds, the caller gets 200 with the response of the second attempt, and
\* the log entry handed to the recorder (and any row it inserts) names the
\* fallback alias, the provider type of that alias's key and the model sent on
\* the fallback attempt.
C3_FallbackSuccessLogged ==
    (pc = "done" /\ FallbackSucceeded) =>
        /\ status = StatusOK
        /\ body.id = 2
        /\ body.model = hops[2].model
        /\ logTask.state # "none"
        /\ logTask.entry.alias_used = GetModelAliasByID(HopRow(1).fallback_alias_id)
        /\ logTask.entry.alias_used = HopRow(2).alias
        /\ logTask.entry.provider_used = provider_keys[HopRow(2).provider_key_id].provider
        /\ logTask.entry.model_used = hops[2].model
        /\ logTask.entry.model_used \in {HopRow(2).target_model, HopRow(2).light_model}
        /\ \A n \in 1..Len(request_logs) : request_logs[n] = logTask.entry

C3_Witness ==
    /\ pc = "done"
    /\ FallbackSucceeded
    /\ openAIReq.model = "a"
    /\ Len(request_logs) = 1
    /\ request_logs[1].alias_used = "b"
    /\ request_logs[1].provider_used # hops[1].provider

\* A second Send happens only after a failed first Send, on the alias named by
\* the failing alias's fallback reference.
RetryOnlyViaFallback ==
    /\ Len(hops) <= 2
    /\ Len(hops) = 2 =>
          /\ hops[1].result = "err"
          /\ HopRow(1).fallback_alias_id # NoID
          /\ hops[2].alias = GetModelAliasByID(HopRow(1).fallback_alias_id)

C5_ConfigErrorsTerminal ==
    /\ cfgErr = "alias" => status = StatusNotFound
    /\ cfgErr = "key" => status = StatusInternalServerError
    /\ cfgErr = "provider" => status = StatusBadRequest
    /\ cfgErr # "none" =>
          /\ pc = "done"
          /\ \A k \in 1..Len(hops) : hops[k].i < i /\ hops[k].result = "err"
          /\ logTask.state = "none"
          /\ request_logs = <<>>
    \* Read off the store: the hop the request ended on (a hop inside the loop)
    \* found no alias row, no key of the caller, or a key of an unknown type.
    /\ (pc = "done" /\ currentModel # NIL /\ i < maxDepth) =>
          LET id == GetModelAlias(userID, currentModel) IN
          IF id = NoID
          THEN status = StatusNotFound /\ cfgErr = "alias"
          ELSE LET t == GetProviderKey(model_aliases[id].provider_key_id, userID) IN
               IF t = NIL
               THEN \/ status = StatusNotFound /\ cfgErr = "alias"
                    \/ status = StatusInternalServerError /\ cfgErr = "key"
               ELSE t \notin SupportedProviders =>
                       \/ status = StatusNotFound /\ cfgErr = "alias"
                       \/ status = StatusInternalServerError /\ cfgErr = "key"
                       \/ status = StatusBadRequest /\ cfgErr = "provider"

C5_Witness ==
    /\ cfgErr = "key"
    /\ Len(hops) = 1
    /\ i = 1
    /\ GetProviderKey(alias.provider_key_id, userID) = NIL

\* C6: a request whose hops all failed upstream, with no configuration error,
\* is answered 502; 508 is answered only after the loop ran out with no
\* upstream error recorded.
C6_AllFailedIs502 ==
    /\ (pc = "done" /\ hops # <<>> /\ AllHopsFailed /\ cfgErr = "none") =>
          status = StatusBadGateway
    /\ status = StatusLoopDetected =>
          /\ i = maxDepth
          /\ ~lastErr
          /\ \A k \in 1..Len(hops) : hops[k].result # "err"

C6_Witness ==
    /\ pc = "done"
    /\ status = StatusBadGateway
    /\ Len(hops) = 1
    /\ hops[1].result = "err"
    /\ alias.fallback_alias_id = NoID

(***************************************************************************)
(* ratelimit: getUserLimits, RateLimitMiddleware, isMinuteLimitExceeded    *)
(*                                                                         *)
(* The clock counts whole minutes.  Steps that touch no shared state are   *)
(* joined to the step that follows them; bucketMu.Lock() is joined to the  *)
(* read it guards.                                                         *)
(***************************************************************************)
Workers == {1, 2}        \* goroutines serving requests concurrently
MaxTime == 1             \* the clock runs over minutes 0..MaxTime
MaxArrivals == 2         \* requests that reach the middleware in one run
limitsCacheTTL == 1      \* limitsCacheTTL = 1 * time.Minute
PruneCeiling == 10000    \* len(minuteBuckets) > 10000
NoMinute == 0 - 1        \* no key computed

\* time.Now().Format("2006-01-02 15:04")
Minute(t) == t

\* Mutant: only a positive stored value overrides the default.
resolveLimitPositive(userValue, serverDefault) ==
    IF userValue > 0 THEN userValue ELSE serverDefault

\* resolveLimit
resolveLimit(userValue, serverDefault) ==
    IF userValue # 0 THEN userValue ELSE serverDefault

\* Stored overrides and server defaults (RATE_LIMIT_MINUTE, RATE_LIMIT_DAILY;
\* strconv.Atoi accepts a sign) a run may start with.
UserRows == [minute : {0, 1}, daily : {0, 1}]
DefaultRows == [minute : {0 - 1, 0, 2}, daily : {0 - 1, 0, 2}]

IdleCall ==
    [pc |-> "idle", user |-> NoID, minuteLimit |-> 0, dailyLimit |-> 0,
     minute |-> NoMinute, count |-> 0, status |-> NoStatus, reason |-> "none"]

\* minuteBuckets[key], the zero value for a key not in the map
BucketCount(key) == IF key \in DOMAIN minuteBuckets THEN minuteBuckets[key] ELSE 0

RECURSIVE SumOver(_, _)
SumOver(f, S) ==
    IF S = {} THEN 0
    ELSE LET x == CHOOSE y \in S : TRUE IN f[x] + SumOver(f, S \ {x})

\* len(minuteBuckets): the keys of the users modelled plus those of the others
BucketsLen(buckets, others) == Cardinality(DOMAIN buckets) + SumOver(others, DOMAIN others)

\* for k := range minuteBuckets { if !strings.HasSuffix(k, ":"+currentMinute) { delete } }
Restrict(f, S) == [x \in S |-> f[x]]
PruneBuckets(buckets, currentMinute) ==
    Restrict(buckets, {key \in DOMAIN buckets : key[2] = currentMinute})
PruneOthers(others, currentMinute) ==
    Restrict(others, {m \in DOMAIN others : m = currentMinute})

\* if len(minuteBuckets) > 10000 { ... }
PruneNeeded(buckets, others) == BucketsLen(buckets, others) > PruneCeiling

\* History: the limit of the request admitted under key.
Admitted(key) == IF key \in DOMAIN admitted THEN admitted[key] ELSE <<>>
Record(key, limit) == admitted' = (key :> Append(Admitted(key), limit)) @@ admitted

\* Mutant: an entry whose age has just reached the TTL is still used.
CacheFreshInclusive(u) ==
    /\ u \in DOMAIN limitsCache
    /\ now - limitsCache[u].fetchedAt <= limitsCacheTTL

\* cached, ok := limitsCache[userID]; ok && time.Since(cached.fetchedAt) < limitsCacheTTL
CacheFresh(u) ==
    /\ u \in DOMAIN limitsCache
    /\ now - limitsCache[u].fetchedAt < limitsCacheTTL

\* A request reaches the middleware on a free worker; getUserLimits reads the
\* cache and uses the entry if it is present and younger than the TTL.
Arrive(w) ==
    /\ rl[w].pc \in {"idle", "done"}
    /\ arrivals < MaxArrivals
    /\ arrivals' = arrivals + 1
    /\ \E u \in {NoID} \cup DOMAIN users :
          rl' = [rl EXCEPT ![w] =
                   IF u = NoID
                   THEN [IdleCall EXCEPT !.pc = "done", !.status = StatusUnauthorized,
                                         !.reason = "unauthorized"]
                   ELSE IF CacheFresh(u)
                   THEN [IdleCall EXCEPT !.pc = "daily", !.user = u,
                           !.minuteLimit = resolveLimit(limitsCache[u].minute,
                                                        defaultLimits.minute),
                           !.dailyLimit = resolveLimit(limitsCache[u].daily,
                                                       defaultLimits.daily)]
                   ELSE [IdleCall EXCEPT !.pc = "query", !.user = u]]
    /\ UNCHANGED <<mgmtVars, proxyVars, now, users, defaultLimits, limitsCache, minuteBuckets,
                   otherBuckets, bucketMu, requestsToday, admitted>>

\* Mutant: the error branch does not return, and the zero values of dbMinute
\* and dbDaily are cached and resolved.
LookupFailedFallsThrough(w) ==
    /\ limitsCache' = (rl[w].user :> [minute |-> 0, daily |-> 0, fetchedAt |-> now])
                         @@ limitsCache
    /\ rl' = [rl EXCEPT ![w].pc = "daily",
                ![w].minuteLimit = resolveLimit(0, defaultLimits.minute),
                ![w].dailyLimit = resolveLimit(0, defaultLimits.daily)]

\* if err != nil { return defaultMinuteLimit, defaultDailyLimit }
LookupFailed(w) ==
    /\ rl' = [rl EXCEPT ![w].pc = "daily",
                ![w].minuteLimit = defaultLimits.minute,
                ![w].dailyLimit = defaultLimits.daily]
    /\ UNCHANGED limitsCache

\* getUserLimits: SELECT rate_limit_minute, rate_limit_daily FROM users WHERE
\* id = $1; on an error the server defaults, else the row is cached with
\* fetchedAt = time.Now() and resolved.
QueryLimits(w) ==
    /\ rl[w].pc = "query"
    /\ \E dbOK \in BOOLEAN :
          IF dbOK
          THEN LET row == users[rl[w].user] IN
               /\ limitsCache' = (rl[w].user :> [minute |-> row.minute,
                                                 daily |-> row.daily,
                                                 fetchedAt |-> now]) @@ limitsCache
               /\ rl' = [rl EXCEPT ![w].pc = "daily",
                           ![w].minuteLimit = resolveLimit(row.minute, defaultLimits.minute),
                           ![w].dailyLimit = resolveLimit(row.daily, defaultLimits.daily)]
          ELSE LookupFailed(w)
    /\ UNCHANGED <<mgmtVars, proxyVars, now, users, defaultLimits, minuteBuckets, otherBuckets,
                   bucketMu, requestsToday, arrivals, admitted>>

\* Mutant: the check is made for every non-zero limit.
LimitEnabledNonZero(limit) == limit # 0

\* if dailyLimit > 0 / if minuteLimit > 0
LimitEnabled(limit) == limit > 0

\* Mutant: the daily count is compared with > instead of >=.
DailyExceededStrict(count, limit) == count > limit

\* if dailyCount >= dailyLimit
DailyExceeded(count, limit) == count >= limit

\* Mutant: a count that failed is passed over and the request goes on.
CountFailedOpen(w) ==
    rl' = [rl EXCEPT ![w].pc = "minute", ![w].reason = "check failed"]

\* if err != nil { http.Error(w, "Rate limit check failed", 500); return }
CountFailed(w) ==
    rl' = [rl EXCEPT ![w].pc = "done",
             ![w].status = StatusInternalServerError,
             ![w].reason = "check failed"]

\* 1. Check Daily Limit
DailyCheck(w) ==
    /\ rl[w].pc = "daily"
    /\ IF LimitEnabled(rl[w].dailyLimit)
       THEN \E dbOK \in BOOLEAN :
               IF ~dbOK
               THEN CountFailed(w)
               ELSE IF DailyExceeded(requestsToday[rl[w].user], rl[w].dailyLimit)
               THEN rl' = [rl EXCEPT ![w].pc = "done",
                             ![w].status = StatusTooManyRequests,
                             ![w].reason = "daily"]
               ELSE rl' = [rl EXCEPT ![w].pc = "minute"]
       ELSE rl' = [rl EXCEPT ![w].pc = "minute"]
    /\ UNCHANGED <<mgmtVars, proxyVars, now, users, defaultLimits, limitsCache, minuteBuckets,
                   otherBuckets, bucketMu, requestsToday, arrivals, admitted>>

\* 2. Per-Minute Limit: minute := time.Now().Format(...); key := ...
MinuteCheck(w) ==
    /\ rl[w].pc = "minute"
    /\ IF LimitEnabled(rl[w].minuteLimit)
       THEN rl' = [rl EXCEPT ![w].pc = "lock", ![w].minute = Minute(now)]
       ELSE rl' = [rl EXCEPT ![w].pc = "next"]
    /\ UNCHANGED <<mgmtVars, proxyVars, now, users, defaultLimits, limitsCache, minuteBuckets,
                   otherBuckets, bucketMu, requestsToday, arrivals, admitted>>

\* bucketMu.Lock()
BucketMuLock(w) ==
    /\ bucketMu = NoID
    /\ bucketMu' = w

\* defer bucketMu.Unlock()
BucketMuUnlock(w) == bucketMu' = NoID

\* bucketMu.Lock(); count := minuteBuckets[key]; if count >= limit { return true }
BucketRead(w) ==
    /\ rl[w].pc = "lock"
    /\ LET key == <<rl[w].user, rl[w].minute>>
           count == BucketCount(key)
       IN IF count >= rl[w].minuteLimit
          THEN /\ bucketMu = NoID
               /\ UNCHANGED bucketMu
               /\ rl' = [rl EXCEPT ![w].pc = "done", ![w].minute = NoMinute,
                           ![w].status = StatusTooManyRequests, ![w].reason = "minute"]
               /\ UNCHANGED admitted
          ELSE /\ BucketMuLock(w)
               /\ rl' = [rl EXCEPT ![w].pc = "write", ![w].count = count]
               /\ UNCHANGED admitted
    /\ UNCHANGED <<mgmtVars, proxyVars, now, users, defaultLimits, limitsCache, minuteBuckets,
                   otherBuckets, requestsToday, arrivals>>

\* minuteBuckets[key] = count + 1; prune when the map is over the ceiling;
\* return false (bucketMu is released on return)
BucketIncrement(w) ==
    /\ rl[w].pc = "write"
    /\ LET key == <<rl[w].user, rl[w].minute>>
           written == (key :> rl[w].count + 1) @@ minuteBuckets
           currentMinute == Minute(now)
       IN /\ IF PruneNeeded(written, otherBuckets)
             THEN /\ minuteBuckets' = PruneBuckets(written, currentMinute)
                  /\ otherBuckets' = PruneOthers(otherBuckets, currentMinute)
             ELSE /\ minuteBuckets' = written
                  /\ UNCHANGED otherBuckets
          /\ Record(key, rl[w].minuteLimit)
    /\ BucketMuUnlock(w)
    /\ rl' = [rl EXCEPT ![w].pc = "next", ![w].minute = NoMinute, ![w].count = 0]
    /\ UNCHANGED <<mgmtVars, proxyVars, now, users, defaultLimits, limitsCache, requestsToday,
                   arrivals>>

\* next.ServeHTTP(w, r): the handler runs; a successful request adds a
\* request_logs row for the user.
ServeNext(w) ==
    /\ rl[w].pc = "next"
    /\ rl' = [rl EXCEPT ![w].pc = "done", ![w].reason = "next"]
    /\ \E logged \in BOOLEAN :
          requestsToday' = IF logged
                           THEN [requestsToday EXCEPT ![rl[w].user] = @ + 1]
                           ELSE requestsToday
    /\ UNCHANGED <<mgmtVars, proxyVars, now, users, defaultLimits, limitsCache, minuteBuckets,
                   otherBuckets, bucketMu, arrivals, admitted>>

\* The clock advances by a minute.
Tick ==
    /\ now < MaxTime
    /\ now' = now + 1
    /\ UNCHANGED <<mgmtVars, proxyVars, users, defaultLimits, limitsCache, minuteBuckets,
                   otherBuckets, bucketMu, requestsToday, rl, arrivals, admitted>>

\* PruneCeiling users outside the users table modelled, each with a positive
\* minute limit, are admitted once each in the current minute, one after the
\* other: every one of them adds a key of the current minute and runs the
\* prune test. The map passes the ceiling during the burst iff it does at its
\* end, and a prune removes the keys of other minutes only.
OtherUsersBurst ==
    /\ bucketMu = NoID
    /\ LET m == Minute(now) IN
       /\ m \notin DOMAIN otherBuckets
       /\ LET grown == (m :> PruneCeiling) @@ otherBuckets IN
          IF PruneNeeded(minuteBuckets, grown)
          THEN /\ minuteBuckets' = PruneBuckets(minuteBuckets, m)
               /\ otherBuckets' = PruneOthers(grown, m)
          ELSE /\ otherBuckets' = grown
               /\ UNCHANGED minuteBuckets
    /\ UNCHANGED <<mgmtVars, proxyVars, now, users, defaultLimits, limitsCache, bucketMu,
                   requestsToday, rl, arrivals, admitted>>

ProxyIdle ==
    /\ model_aliases = <<>>
    /\ provider_keys = <<>>
    /\ request_logs = <<>>
    /\ pc = "done"
    /\ userID = NoID
    /\ openAIReq = NoReqCopy
    /\ i = 0
    /\ currentModel = NIL
    /\ lastErr = FALSE
    /\ alias = NoAlias
    /\ providerType = NIL
    /\ reqCopy = NoReqCopy
    /\ openAIResp = NoResp
    /\ status = NoStatus
    /\ body = NoResp
    /\ logTask = NoTask
    /\ hops = <<>>
    /\ cfgErr = "none"
    /\ reqCtx = "live"

\* One user, with each stored override and each pair of server defaults.
InitRL ==
    /\ ProxyIdle
    /\ MgmtIdle
    /\ now = 0
    /\ users \in [{ReqUser} -> UserRows]
    /\ defaultLimits \in DefaultRows
    /\ limitsCache = <<>>
    /\ minuteBuckets = <<>>
    /\ otherBuckets = <<>>
    /\ bucketMu = NoID
    /\ requestsToday = [u \in DOMAIN users |-> 0]
    /\ rl = [w \in Workers |-> IdleCall]
    /\ arrivals = 0
    /\ admitted = <<>>

NextRL ==
    \/ \E w \in Workers :
          \/ Arrive(w)
          \/ QueryLimits(w)
          \/ DailyCheck(w)
          \/ MinuteCheck(w)
          \/ BucketRead(w)
          \/ BucketIncrement(w)
          \/ ServeNext(w)
    \/ Tick
    \/ OtherUsersBurst

SpecRL == InitRL /\ [][NextRL]_vars

(***************************************************************************)
(* Claims on the rate limiter                                              *)
(***************************************************************************)
\* every request admitted under key carried the minute limit n
Uniform(key, n) == \A k \in 1..Len(Admitted(key)) : Admitted(key)[k] = n

\* w leaves the step it is at
Leaves(w, at) == rl[w].pc = at /\ rl'[w].pc # at

(* C7: of the requests of one user that carry the same (user, minute) key   *)
(* and the same minute limit N > 0, at most N pass the minute check,       *)
(* whatever the interleaving.                                              *)
C7_AtMostNAdmitted ==
    \A key \in DOMAIN admitted :
        Uniform(key, admitted[key][1]) => Len(admitted[key]) <= admitted[key][1]

(* C8: with a minute limit N > 0 a request that reaches the counter of     *)
(* its (user, minute) key is admitted when fewer than N were admitted      *)
(* under the key before it (so the first one of a new minute always is),   *)
(* and is rejected with 429, the counter left as it is, when N were; the   *)
(* counter never exceeds N.                                                *)
C8_FirstNThenRejected ==
    [][\A w \in Workers :
          Leaves(w, "lock") =>
             LET key == <<rl[w].user, rl[w].minute>>
                 n == rl[w].minuteLimit
             IN Uniform(key, n) =>
                   /\ Len(Admitted(key)) < n => rl'[w].pc = "write"
                   /\ Len(Admitted(key)) >= n =>
                         /\ rl'[w].pc = "done"
                         /\ rl'[w].status = StatusTooManyRequests
                         /\ rl'[w].reason = "minute"
                         /\ minuteBuckets' = minuteBuckets
                   /\ BucketCount(key) <= n]_vars

\* the daily check of w, its count read, finds the count at or over the limit
DailyCountAtLimit(w) ==
    /\ Leaves(w, "daily")
    /\ rl'[w].reason # "check failed"
    /\ requestsToday[rl[w].user] >= rl[w].dailyLimit

\* w is rejected by the daily check and the minute counters are not touched
DailyRejected(w) ==
    /\ rl'[w].pc = "done"
    /\ rl'[w].status = StatusTooManyRequests
    /\ rl'[w].reason = "daily"
    /\ rl'[w].minute = NoMinute
    /\ minuteBuckets' = minuteBuckets
    /\ bucketMu' = bucketMu

(* C9 as stated: when the resolved daily limit is non-zero and the count   *)
(* of the user's request-log rows of the day is >= the limit, the request  *)
(* is rejected with 429 (daily) and the minute counter is neither read nor *)
(* incremented.                                                            *)
C9_NonZeroDailyLimitRejects ==
    [][\A w \in Workers :
          (rl[w].dailyLimit # 0 /\ DailyCountAtLimit(w)) => DailyRejected(w)]_vars

(* C9 amended: the daily check runs before the minute check: when the      *)
(* resolved daily limit is positive and the count of the user's            *)
(* request-log rows of the day is >= the limit, the request is rejected    *)
(* with 429 (daily) whatever the minute counter holds, and the minute      *)
(* counter is neither read nor incremented.                                *)
C9_PositiveDailyLimitRejects ==
    [][\A w \in Workers :
          (rl[w].dailyLimit > 0 /\ DailyCountAtLimit(w)) => DailyRejected(w)]_vars

\* A request was rejected by the daily check while the minute counter of its
\* user, in use, was below the minute limit.
C9_Witness ==
    \E w \in Workers :
        /\ rl[w].pc = "done"
        /\ rl[w].reason = "daily"
        /\ rl[w].dailyLimit > 0
        /\ requestsToday[rl[w].user] >= rl[w].dailyLimit
        /\ BucketCount(<<rl[w].user, Minute(now)>>) > 0
        /\ BucketCount(<<rl[w].user, Minute(now)>>) < rl[w].minuteLimit

\* The daily check is made by w: w goes on iff the count was read and is
\* below the limit.
DailyCheckPerformed(w) ==
    /\ rl'[w].pc = "minute" => requestsToday[rl[w].user] < rl[w].dailyLimit
    /\ rl'[w].pc # "minute" =>
          /\ rl'[w].pc = "done"
          /\ rl'[w].reason \in {"daily", "check failed"}
          /\ rl'[w].reason = "daily" => requestsToday[rl[w].user] >= rl[w].dailyLimit
DailyCheckSkipped(w) == rl'[w].pc = "minute"

\* The minute check is made by w: w computes its key and goes for the counter.
MinuteCheckPerformed(w) == rl'[w].pc = "lock" /\ rl'[w].minute = Minute(now)
MinuteCheckSkipped(w) == rl'[w].pc = "next" /\ rl'[w].minute = NoMinute

(* C10 as stated: on each axis the check is skipped exactly when the       *)
(* resolved limit is 0 and performed whenever it is non-zero.              *)
C10_SkippedIffZero ==
    [][\A w \in Workers :
          /\ Leaves(w, "daily") =>
                IF rl[w].dailyLimit # 0 THEN DailyCheckPerformed(w)
                                        ELSE DailyCheckSkipped(w)
          /\ Leaves(w, "minute") =>
                IF rl[w].minuteLimit # 0 THEN MinuteCheckPerformed(w)
                                         ELSE MinuteCheckSkipped(w)]_vars

(* C10 amended: for every integer value of the resolved limit on an axis,  *)
(* the daily (respectively minute) check is skipped exactly when the       *)
(* resolved limit is 0 or negative and is performed whenever it is         *)
(* positive.                                                               *)
C10_SkippedIffNotPositive ==
    [][\A w \in Workers :
          /\ Leaves(w, "daily") =>
                IF rl[w].dailyLimit > 0 THEN DailyCheckPerformed(w)
                                        ELSE DailyCheckSkipped(w)
          /\ Leaves(w, "minute") =>
                IF rl[w].minuteLimit > 0 THEN MinuteCheckPerformed(w)
                                         ELSE MinuteCheckSkipped(w)]_vars

\* One request went through with both limits negative although its user had
\* a logged request, another was stopped by a positive limit.
C10_Witness ==
    \E w, v \in Workers :
        /\ rl[w].pc = "done"
        /\ rl[w].reason = "next"
        /\ rl[w].dailyLimit < 0
        /\ rl[w].minuteLimit < 0
        /\ requestsToday[rl[w].user] > 0
        /\ rl[v].pc = "done"
        /\ rl[v].reason \in {"daily", "minute"}

(***************************************************************************)
(* SpecGL: concurrent calls of getUserLimits over every stored override    *)
(* and every pair of server defaults, negative values included             *)
(***************************************************************************)
LimitValues == {0 - 1, 0, 1, 2}

InitGL ==
    /\ ProxyIdle
    /\ MgmtIdle
    /\ now = 0
    /\ users \in [{ReqUser} -> [minute : LimitValues, daily : LimitValues]]
    /\ defaultLimits \in [minute : LimitValues, daily : LimitValues]
    /\ limitsCache = <<>>
    /\ minuteBuckets = <<>>
    /\ otherBuckets = <<>>
    /\ bucketMu = NoID
    /\ requestsToday = [u \in DOMAIN users |-> 0]
    /\ rl = [w \in Workers |-> IdleCall]
    /\ arrivals = 0
    /\ admitted = <<>>

NextGL ==
    \/ \E w \in Workers :
          \/ Arrive(w)
          \/ QueryLimits(w)
    \/ Tick

SpecGL == InitGL /\ [][NextGL]_vars

\* getUserLimits returns to w
LimitsReturned(w) == rl[w].pc \in {"idle", "done", "query"} /\ rl'[w].pc = "daily"

\* the effective limit on one axis, as the claim words it
Effective(stored, default) == IF stored = 0 THEN default ELSE stored

\* the lookup of w failed: the defaults on both axes, the cache as it was
DefaultsReturned(w) ==
    /\ rl[w].pc = "query"
    /\ rl'[w].minuteLimit = defaultLimits.minute
    /\ rl'[w].dailyLimit = defaultLimits.daily
    /\ limitsCache' = limitsCache

(* C11: the limits getUserLimits returns are resolved axis by axis: on     *)
(* each axis the stored user value when it is non-zero, the server default *)
(* of that axis when the stored value is 0 (so 0 with default 0 gives 0),  *)
(* the other axis playing no part; a failed lookup gives the defaults.     *)
C11_PerAxisResolution ==
    [][\A w \in Workers :
          LimitsReturned(w) =>
             \/ /\ rl'[w].minuteLimit =
                      Effective(users[rl'[w].user].minute, defaultLimits.minute)
                /\ rl'[w].dailyLimit =
                      Effective(users[rl'[w].user].daily, defaultLimits.daily)
             \/ DefaultsReturned(w)]_vars

\* One call resolved the minute axis to a stored negative value and the daily
\* axis to the server default, the other (stored 0, default 0) to 0.
C11_Witness ==
    \E w \in Workers :
        /\ rl[w].pc = "daily"
        /\ users[rl[w].user].minute < 0
        /\ users[rl[w].user].daily = 0
        /\ defaultLimits.minute = 0
        /\ defaultLimits.daily = 2
        /\ rl[w].minuteLimit = users[rl[w].user].minute
        /\ rl[w].dailyLimit = 2

\* the lookup of w succeeded: the row is in the cache, stamped with the current
\* time, and resolved
RowReturned(w) ==
    LET u == rl[w].user IN
    /\ rl[w].pc = "query"
    /\ u \in DOMAIN limitsCache'
    /\ limitsCache'[u] = [minute |-> users[u].minute, daily |-> users[u].daily,
                          fetchedAt |-> now]
    /\ \A v \in DOMAIN limitsCache' \ {u} :
          v \in DOMAIN limitsCache /\ limitsCache'[v] = limitsCache[v]
    /\ rl'[w].minuteLimit = Effective(users[u].minute, defaultLimits.minute)
    /\ rl'[w].dailyLimit = Effective(users[u].daily, defaultLimits.daily)

(* C12: a lookup of the stored override (made when the cache entry is      *)
(* absent or expired) that fails returns the server defaults on both axes  *)
(* and leaves the cache as it was; the request is not rejected for it and  *)
(* goes on to the daily check. Every return from the lookup is of this     *)
(* shape or is the return of the row read.                                 *)
C12_LookupErrorFailsOpen ==
    [][\A w \in Workers :
          Leaves(w, "query") =>
             /\ rl'[w].pc = "daily"
             /\ rl'[w].status = NoStatus
             /\ rl'[w].user = rl[w].user
             /\ DefaultsReturned(w) \/ RowReturned(w)]_vars

\* A request went through to the next handler on the server defaults although
\* the stored row resolves to another minute limit, and nothing was cached.
C12_Witness ==
    \E w \in Workers :
        /\ rl[w].pc = "done"
        /\ rl[w].reason = "next"
        /\ rl[w].user \notin DOMAIN limitsCache
        /\ rl[w].minuteLimit = defaultLimits.minute
        /\ rl[w].dailyLimit = defaultLimits.daily
        /\ rl[w].minuteLimit # Effective(users[rl[w].user].minute, defaultLimits.minute)

(* C13: when the daily limit is non-zero and the count of the user's       *)
(* request-log rows fails, the request ends with 500 (rate limit check     *)
(* failed), the next handler is not invoked, and the minute counter map    *)
(* is as it was.                                                           *)
C13_CountErrorRejects ==
    [][\A w \in Workers :
          rl'[w].reason = "check failed" =>
             /\ rl'[w].pc = "done"
             /\ rl'[w].status = StatusInternalServerError
             /\ rl'[w].dailyLimit # 0
             /\ rl[w].reason # "check failed" =>
                   /\ rl[w].pc = "daily"
                   /\ minuteBuckets' = minuteBuckets
                   /\ otherBuckets' = otherBuckets
                   /\ bucketMu' = bucketMu
                   /\ requestsToday' = requestsToday]_vars

\* A request was stopped by a failed count while the minute counter of its user
\* held an admission.
C13_Witness ==
    \E w \in Workers :
        /\ rl[w].pc = "done"
        /\ rl[w].reason = "check failed"
        /\ rl[w].status = StatusInternalServerError
        /\ rl[w].minuteLimit > 0
        /\ BucketCount(<<rl[w].user, Minute(now)>>) = 1

\* w enters getUserLimits for a user
LimitsCalled(w) == rl[w].pc \in {"idle", "done"} /\ rl'[w].pc \in {"daily", "query"}

(* C14: a call uses the cached override of its user iff the entry is there *)
(* and its age is below the TTL, and then resolves the cached pair; else   *)
(* it queries the stored override and, when the query succeeds, replaces   *)
(* the entry by the queried pair stamped with the current time. No call    *)
(* resolves from an entry of age >= TTL.                                   *)
C14_CacheUsedOnlyWhenFresh ==
    [][\A w \in Workers :
          /\ LimitsCalled(w) =>
                LET u == rl'[w].user
                    fresh == /\ u \in DOMAIN limitsCache
                             /\ now - limitsCache[u].fetchedAt < limitsCacheTTL
                IN /\ rl'[w].pc = "daily" <=> fresh
                   /\ rl'[w].pc = "query" <=> ~fresh
                   /\ fresh =>
                         /\ rl'[w].minuteLimit =
                               Effective(limitsCache[u].minute, defaultLimits.minute)
                         /\ rl'[w].dailyLimit =
                               Effective(limitsCache[u].daily, defaultLimits.daily)
                   /\ limitsCache' = limitsCache
          /\ Leaves(w, "query") => DefaultsReturned(w) \/ RowReturned(w)]_vars

\* A call is querying the stored override while the cache holds an entry of
\* its user whose age has reached the TTL.
C14_Witness ==
    \E w \in Workers :
        /\ rl[w].pc = "query"
        /\ rl[w].user \in DOMAIN limitsCache
        /\ now - limitsCache[rl[w].user].fetchedAt >= limitsCacheTTL

(***************************************************************************)
(* SpecLM: one request through ProxyHandler over every light-model policy  *)
(* of an alias "a" and of its fallback alias "b" (which falls back to "a") *)
(* and over message                                                        *)
(* lists whose estimates lie below, at and above the thresholds            *)
(***************************************************************************)
\* light_model_threshold values stored
LightThresholds == {1, 2}

\* use_light_model, light_model (NULL, empty, a name), light_model_threshold
LightPolicies(id) ==
    [use_light_model : BOOLEAN,
     light_model : {NIL, "", LightModels[id]},
     light_model_threshold : LightThresholds]

LightAliasTables ==
    { (1 :> [user_id |-> ReqUser, alias |-> "a", target_model |-> TargetModels[1],
             provider_key_id |-> 2, fallback_alias_id |-> 2,
             use_light_model |-> p.use_light_model,
             light_model_threshold |-> p.light_model_threshold,
             light_model |-> p.light_model]) @@
      (2 :> [user_id |-> ReqUser, alias |-> "b", target_model |-> TargetModels[2],
             provider_key_id |-> 3, fallback_alias_id |-> 1,
             use_light_model |-> q.use_light_model,
             light_model_threshold |-> q.light_model_threshold,
             light_model |-> q.light_model]) @@
      (3 :> [user_id |-> 2, alias |-> "a", target_model |-> TargetModels[3],
             provider_key_id |-> 5, fallback_alias_id |-> NoID,
             use_light_model |-> FALSE, light_model_threshold |-> 100,
             light_model |-> NIL]) :
      p \in LightPolicies(1), q \in LightPolicies(2) }

\* Message lists of total content length 0, 3, 4, 7, 8 (in three splits), 11, 12.
LightMessages ==
    { <<>>,
      <<[role |-> "user", content |-> Chars(0)]>>,
      <<[role |-> "system", content |-> Chars(2)], [role |-> "user", content |-> Chars(1)]>>,
      <<[role |-> "user", content |-> Chars(4)]>>,
      <<[role |-> "system", content |-> Chars(4)], [role |-> "user", content |-> Chars(3)]>>,
      <<[role |-> "user", content |-> Chars(8)]>>,
      <<[role |-> "system", content |-> Chars(4)], [role |-> "user", content |-> Chars(4)]>>,
      <<[role |-> "user", content |-> Chars(5)], [role |-> "assistant", content |-> Chars(3)]>>,
      <<[role |-> "user", content |-> Chars(11)]>>,
      <<[role |-> "user", content |-> Chars(12)]>> }

InitLM ==
    /\ model_aliases \in LightAliasTables
    /\ provider_keys = ProviderKeysTable
    /\ request_logs = <<>>
    /\ pc = "start"
    /\ userID = NoID
    /\ openAIReq \in [model : {"a"}, messages : LightMessages, max_tokens : {0}]
    /\ i = 0
    /\ currentModel = NIL
    /\ lastErr = FALSE
    /\ alias = NoAlias
    /\ providerType = NIL
    /\ reqCopy = NoReqCopy
    /\ openAIResp = NoResp
    /\ status = NoStatus
    /\ body = NoResp
    /\ logTask = NoTask
    /\ hops = <<>>
    /\ cfgErr = "none"
    /\ reqCtx = "live"
    /\ RLIdle
    /\ MgmtIdle

SpecLM == InitLM /\ [][Next]_vars

\* The sum of the content lengths, message by message from the last one.
SumLen(messages) ==
    LET RECURSIVE upto(_)
        upto(n) == IF n = 0 THEN 0 ELSE upto(n - 1) + Len(messages[n].content)
    IN upto(Len(messages))

\* The estimate as the claim words it.
ExpectedTokens(total) ==
    IF total = 0 THEN 0
    ELSE IF total <= 3 THEN 1
    ELSE CHOOSE q \in 0..total : 4 * q <= total /\ total < 4 * (q + 1)

\* The alias row enables light-model use and names a non-empty light model.
LightEnabled(row) ==
    /\ row.use_light_model
    /\ row.light_model # NIL
    /\ row.light_model # ""

(* C15: on each hop the model sent upstream is the light model of the hop's *)
(* alias iff the alias enables light-model use, its light model is present *)
(* and non-empty and the estimate is strictly below the alias's threshold; *)
(* otherwise (at estimate = threshold and above too) it is the alias's     *)
(* target model.                                                           *)
C15_LightIffBelowThreshold ==
    \A k \in 1..Len(hops) :
        LET tokens == ExpectedTokens(SumLen(openAIReq.messages))
            light == LightEnabled(HopRow(k)) /\ tokens < HopRow(k).light_model_threshold
        IN /\ light => hops[k].model = HopRow(k).light_model
           /\ ~light => hops[k].model = HopRow(k).target_model
           /\ hops[k].model # HopRow(k).target_model => light

\* A Send went out with the target model of an alias whose light model is
\* enabled, the estimate being equal to the alias's threshold.
C15_Witness ==
    \E k \in 1..Len(hops) :
        /\ LightEnabled(HopRow(k))
        /\ ExpectedTokens(SumLen(openAIReq.messages)) = HopRow(k).light_model_threshold
        /\ hops[k].model = HopRow(k).target_model
        /\ hops[k].result = "ok"

(* C16: estimateTokens is 0 for a total content length of 0, 1 for a total *)
(* of 1..3 and floor(total / 4) otherwise; it depends on the sum of the    *)
(* content lengths only, not on roles or on the split into messages.       *)
C16_EstimateByTotalLength ==
    /\ estimateTokens(openAIReq.messages) = ExpectedTokens(SumLen(openAIReq.messages))
    /\ \A m \in LightMessages :
          SumLen(m) = SumLen(openAIReq.messages) =>
              estimateTokens(m) = estimateTokens(openAIReq.messages)

\* A text of 3 characters over two messages of different roles is estimated at
\* 1 token: the light model of an alias of threshold 2 is sent.
C16_Witness ==
    /\ Len(hops) = 1
    /\ SumLen(openAIReq.messages) = 3
    /\ Len(openAIReq.messages) = 2
    /\ LightEnabled(HopRow(1))
    /\ HopRow(1).light_model_threshold = 2
    /\ hops[1].model = HopRow(1).light_model

\* The models of an alias row that may be sent upstream.
ModelsOf(row) == {row.target_model} \cup
                 (IF row.light_model \in {NIL, ""} THEN {} ELSE {row.light_model})

\* The estimate is below the row's threshold and the row's light model is usable.
Substitutes(row) ==
    /\ LightEnabled(row)
    /\ ExpectedTokens(SumLen(openAIReq.messages)) < row.light_model_threshold

(* C17: the light-model decision is made on every hop from that hop's      *)
(* alias alone: the model sent on the fallback attempt is the fallback     *)
(* alias's target model or its own light model, never a model of the       *)
(* primary alias, and a substitution made (or not made) on the primary     *)
(* attempt does not carry over to the fallback attempt.                    *)
C17_LightDecisionPerHop ==
    Len(hops) = 2 =>
        /\ hops[2].row = 2
        /\ hops[2].model \in ModelsOf(model_aliases[2])
        /\ hops[2].model \notin ModelsOf(model_aliases[1])
        /\ (hops[1].model = model_aliases[1].light_model /\ ~Substitutes(model_aliases[2]))
              => hops[2].model = model_aliases[2].target_model
        /\ (hops[1].model = model_aliases[1].target_model /\ Substitutes(model_aliases[2]))
              => hops[2].model = model_aliases[2].light_model

\* The primary attempt went out with the primary's light model and the
\* fallback attempt, for the same messages, with the fallback's target model
\* although the fallback alias names a light model too.
C17_Witness ==
    /\ Len(hops) = 2
    /\ hops[1].model = model_aliases[1].light_model
    /\ LightEnabled(model_aliases[2])
    /\ hops[2].model = model_aliases[2].target_model
    /\ hops[2].result = "ok"

(***************************************************************************)
(* SpecTR: one request through ProxyHandler to an alias of each provider   *)
(* type, over message lists with system messages (white space at their     *)
(* ends included) and over max_tokens below, at and above zero             *)
(***************************************************************************)
Hi == <<"H", "i">>

TRMessages ==
    { <<>>,
      <<[role |-> "user", content |-> Hello]>>,
      <<[role |-> "system", content |-> BeHelpful], [role |-> "user", content |-> Hello]>>,
      <<[role |-> "system", content |-> <<" ", "B", "e">>],
        [role |-> "user", content |-> Hi],
        [role |-> "system", content |-> <<"o", "k", " ">>]>>,
      <<[role |-> "user", content |-> Hi],
        [role |-> "system", content |-> <<"A">>],
        [role |-> "assistant", content |-> <<"B">>],
        [role |-> "system", content |-> <<>>],
        [role |-> "system", content |-> <<"C", "\n">>]>>,
      <<[role |-> "system", content |-> <<" ">>]>> }

\* max_tokens of the decoded body (an int; 0 when the field is absent)
MaxTokensValues == {0 - 1, 0, 5}

\* Target models: the names ModelMap knows, the names it maps to, and a name it
\* does not hold.
TRTargetModels ==
    DOMAIN ModelMap \cup {ModelMap[m] : m \in DOMAIN ModelMap} \cup {"claude-3-unknown"}

\* Alias "a" of the caller on a key of each supported provider type, falling
\* back to itself.
TRAliasTables ==
    { (1 :> [user_id |-> ReqUser, alias |-> "a", target_model |-> target,
             provider_key_id |-> key, fallback_alias_id |-> 1,
             use_light_model |-> FALSE, light_model_threshold |-> 100,
             light_model |-> NIL]) @@
      (2 :> [user_id |-> ReqUser, alias |-> "b", target_model |-> TargetModels[2],
             provider_key_id |-> 2, fallback_alias_id |-> NoID,
             use_light_model |-> FALSE, light_model_threshold |-> 100,
             light_model |-> NIL]) @@
      (3 :> [user_id |-> 2, alias |-> "a", target_model |-> TargetModels[3],
             provider_key_id |-> 5, fallback_alias_id |-> NoID,
             use_light_model |-> FALSE, light_model_threshold |-> 100,
             light_model |-> NIL]) :
      key \in {1, 2, 3}, target \in TRTargetModels }

InitTR ==
    /\ model_aliases \in TRAliasTables
    /\ provider_keys = ProviderKeysTable
    /\ request_logs = <<>>
    /\ pc = "start"
    /\ userID = NoID
    /\ openAIReq \in [model : {"a"}, messages : TRMessages, max_tokens : MaxTokensValues]
    /\ i = 0
    /\ currentModel = NIL
    /\ lastErr = FALSE
    /\ alias = NoAlias
    /\ providerType = NIL
    /\ reqCopy = NoReqCopy
    /\ openAIResp = NoResp
    /\ status = NoStatus
    /\ body = NoResp
    /\ logTask = NoTask
    /\ hops = <<>>
    /\ cfgErr = "none"
    /\ reqCtx = "live"
    /\ RLIdle
    /\ MgmtIdle

SpecTR == InitTR /\ [][Next]_vars

\* the hop whose response was written to the caller
LastHop == hops[Len(hops)]

SystemContents(messages) ==
    LET system == SelectSeq([k \in 1..Len(messages) |-> k],
                            LAMBDA k : messages[k].role = "system")
    IN [j \in 1..Len(system) |-> messages[system[j]].content]

\* The texts joined with a newline between one and the next.
RECURSIVE JoinLines(_)
JoinLines(texts) ==
    IF texts = <<>> THEN <<>>
    ELSE IF Len(texts) = 1 THEN texts[1]
    ELSE texts[1] \o <<"\n">> \o JoinLines(Tail(texts))

RECURSIVE TrimRight(_)
TrimRight(str) ==
    IF str = <<>> THEN <<>>
    ELSE IF str[Len(str)] \in WhiteSpace THEN TrimRight(SubSeq(str, 1, Len(str) - 1))
    ELSE str

RECURSIVE TrimLeft(_)
TrimLeft(str) ==
    IF str = <<>> THEN <<>>
    ELSE IF Head(str) \in WhiteSpace THEN TrimLeft(Tail(str))
    ELSE str

\* The messages that are not system messages, in their order.
NonSystem(messages) == SelectSeq(messages, LAMBDA m : m.role # "system")

(* C19 as stated: the Anthropic request has a system field equal to the    *)
(* contents of the system messages joined in order with a newline, with    *)
(* trailing white space trimmed, and a message list of exactly the         *)
(* non-system messages in order, role and content unchanged.               *)
C19_SystemTrimmedAtTheEnd ==
    \A k \in 1..Len(hops) :
        hops[k].provider = "anthropic" =>
            /\ hops[k].sent.system = TrimRight(JoinLines(SystemContents(openAIReq.messages)))
            /\ hops[k].sent.messages = NonSystem(openAIReq.messages)

(* C19 amended: the Anthropic request has a system field equal to the      *)
(* contents of the system messages joined in order with a newline, with    *)
(* leading and trailing white space trimmed, and a message list of exactly *)
(* the non-system messages in order, role and content unchanged.           *)
C19_SystemTrimmedAtBothEnds ==
    \A k \in 1..Len(hops) :
        hops[k].provider = "anthropic" =>
            /\ hops[k].sent.system =
                  TrimLeft(TrimRight(JoinLines(SystemContents(openAIReq.messages))))
            /\ hops[k].sent.messages = NonSystem(openAIReq.messages)

\* Three system messages, one of them empty, lie between other messages: the
\* system field holds them joined and trimmed, the list the other two messages.
C19_Witness ==
    \E k \in 1..Len(hops) :
        /\ hops[k].provider = "anthropic"
        /\ Len(SystemContents(openAIReq.messages)) = 3
        /\ hops[k].sent.system = <<"A", "\n", "\n", "C">>
        /\ Len(hops[k].sent.messages) = 2

\* max_tokens as openai and gemini get it: the canonical value, left out at 0
Forwarded(maxTokens) == IF maxTokens = 0 THEN <<>> ELSE <<maxTokens>>

(* C20 as stated: the Anthropic request has max_tokens 4096 when the       *)
(* canonical max_tokens is zero or absent and the canonical value          *)
(* otherwise; openai and gemini get the canonical value unchanged (zero    *)
(* stays unset).                                                           *)
C20_DefaultWhenZero ==
    \A k \in 1..Len(hops) :
        IF hops[k].provider = "anthropic"
        THEN hops[k].sent.max_tokens =
                IF openAIReq.max_tokens = 0 THEN <<4096>> ELSE <<openAIReq.max_tokens>>
        ELSE hops[k].sent.max_tokens = Forwarded(openAIReq.max_tokens)

(* C20 amended: the Anthropic request has max_tokens 4096 when the         *)
(* canonical max_tokens is zero, negative or absent and the canonical      *)
(* value when it is positive; openai and gemini get the canonical value    *)
(* unchanged (zero stays unset).                                           *)
C20_DefaultWhenNotPositive ==
    \A k \in 1..Len(hops) :
        IF hops[k].provider = "anthropic"
        THEN hops[k].sent.max_tokens =
                IF openAIReq.max_tokens <= 0 THEN <<4096>> ELSE <<openAIReq.max_tokens>>
        ELSE hops[k].sent.max_tokens = Forwarded(openAIReq.max_tokens)

\* A request with a negative max_tokens went to Anthropic with 4096.
C20_Witness ==
    \E k \in 1..Len(hops) :
        /\ hops[k].provider = "anthropic"
        /\ openAIReq.max_tokens < 0
        /\ hops[k].sent.max_tokens = <<4096>>

(***************************************************************************)
(* Response aggregation                                                    *)
(***************************************************************************)
\* The text of the first n blocks that are of type "text", in order.
RECURSIVE TextOfFirst(_, _)
TextOfFirst(blocks, n) ==
    IF n = 0 THEN <<>>
    ELSE TextOfFirst(blocks, n - 1) \o
         (IF blocks[n].type = "text" THEN blocks[n].text ELSE <<>>)

AnthropicEmitted == status = StatusOK /\ LastHop.provider = "anthropic"

\* C21: the response emitted for an Anthropic upstream body has exactly one
\* choice, of index 0 and role assistant, whose content is the concatenation,
\* in order, of the text of the blocks of type "text"; blocks of another type
\* contribute nothing, and a body without a text block gives the empty content.
C21_OneChoiceOfTextBlocks ==
    AnthropicEmitted =>
        LET blocks == LastHop.received.content IN
        /\ Len(body.choices) = 1
        /\ body.choices[1].index = 0
        /\ body.choices[1].role = "assistant"
        /\ body.choices[1].content = TextOfFirst(blocks, Len(blocks))
        /\ (\A k \in 1..Len(blocks) : blocks[k].type # "text") =>
               body.choices[1].content = <<>>
        /\ (blocks = <<[type |-> "text", text |-> HelloThere]>>
             /\ LastHop.received.input_tokens = 10
             /\ LastHop.received.output_tokens = 20) =>
               /\ body.choices[1].content = HelloThere
               /\ body.total_tokens = 30

\* Text blocks around blocks of other types, one of which carries text, were
\* emitted as "there".
C21_Witness ==
    /\ AnthropicEmitted
    /\ Len(LastHop.received.content) = 5
    /\ \E k \in 1..5 : /\ LastHop.received.content[k].type # "text"
                       /\ LastHop.received.content[k].text # <<>>
    /\ body.choices[1].content = <<"t", "h", "e", "r", "e">>

(***************************************************************************)
(* Model names in the Anthropic translation                                *)
(***************************************************************************)
\* The hops whose Send went through the Anthropic translation.
AnthropicHops == {k \in 1..Len(hops) : hops[k].provider = "anthropic"}

\* C22: in the Anthropic translation a model name held by ModelMap goes
\* upstream as the name it is mapped to, any other name goes upstream
\* unchanged, and translating the name that went upstream once more leaves it
\* unchanged.
C22_MappedOrPassedThrough ==
    \A k \in AnthropicHops :
        LET model == hops[k].model
            sent == hops[k].sent.model IN
        /\ model \in {"gpt-4", "gpt-4-turbo"} => sent = "claude-3-opus-20240229"
        /\ model = "gpt-4o" => sent = "claude-3-5-sonnet-20240620"
        /\ model = "gpt-3.5-turbo" => sent = "claude-3-haiku-20240307"
        /\ model \notin {"gpt-4", "gpt-4-turbo", "gpt-4o", "gpt-3.5-turbo"} => sent = model
        /\ OpenAIToAnthropicRequest([model |-> sent, messages |-> <<>>,
                                     max_tokens |-> 0]).model = sent

\* A mapped name, a name that is already a mapped value and an unknown name
\* each went upstream: here the second hop sent a mapped value unchanged.
C22_Witness ==
    /\ Len(hops) = 2
    /\ AnthropicHops = {1, 2}
    /\ hops[2].model = "claude-3-haiku-20240307"
    /\ hops[2].sent.model = "claude-3-haiku-20240307"

C22_WitnessMapped ==
    /\ 1 \in AnthropicHops
    /\ hops[1].model = "gpt-4o"
    /\ hops[1].sent.model = "claude-3-5-sonnet-20240620"

C22_WitnessUnknown ==
    /\ 1 \in AnthropicHops
    /\ hops[1].model = "claude-3-unknown"
    /\ hops[1].sent.model = "claude-3-unknown"

(***************************************************************************)
(* The usage recorder                                                      *)
(***************************************************************************)
EndedOnSuccess == Len(hops) > 0 /\ LastHop.result = "ok"
LogStarted == logTask.state = "none" /\ logTask'.state # "none"
InsertReturned == logTask.state = "pending" /\ logTask'.state = "finished"

\* A request that has returned started the insert iff its last Send
\* succeeded; one that ended in an error status started none and has no row.
LoggedIffSucceeded ==
    /\ logTask.state # "none" => status = StatusOK /\ EndedOnSuccess /\ body = openAIResp
    /\ pc = "done" => (logTask.state # "none" <=> EndedOnSuccess)
    /\ (pc = "done" /\ status # StatusOK) => logTask.state = "none" /\ request_logs = <<>>
    /\ Len(request_logs) <= 1

\* The insert is started once: out of the state in which none was started,
\* after 200 and the body were written, by the step on which the handler
\* returns; a started insert is never started again.
StartedOnceAfterWrite ==
    /\ LogStarted => /\ status = StatusOK
                     /\ body = openAIResp
                     /\ status' = status /\ body' = body
                     /\ logTask'.state = "pending"
                     /\ pc' = "done"
    /\ logTask.state # "none" => logTask'.state # "none" /\ logTask'.entry = logTask.entry
    /\ logTask.state = "finished" => logTask'.state = "finished"

\* The insert returns, with or without a row, while the handler has returned,
\* and leaves what was sent as it is.
InsertLeavesResponse ==
    InsertReturned => /\ pc = "done" /\ pc' = "done"
                      /\ status' = status /\ status = StatusOK
                      /\ body' = body
                      /\ Len(request_logs') \in {Len(request_logs), Len(request_logs) + 1}

\* C23: a usage log insert is started exactly once for a request that ends in
\* a successful upstream response and never for one that ends in an error
\* status; it is started after the response was written, the handler returns
\* without waiting for it, and a failed insert changes neither the status nor
\* the body sent.
C23_LogOnceAfterSuccess ==
    /\ []LoggedIffSucceeded
    /\ [][StartedOnceAfterWrite /\ InsertLeavesResponse]_vars

\* The handler has returned 200 after a successful Send, the insert has failed
\* and no row was written.
C23_Witness ==
    /\ pc = "done"
    /\ status = StatusOK
    /\ EndedOnSuccess
    /\ logTask.state = "finished"
    /\ request_logs = <<>>
    /\ body = openAIResp

\* The handler has returned while the insert is still to run.
C23_WitnessPending ==
    /\ pc = "done"
    /\ status = StatusOK
    /\ logTask.state = "pending"

\* The row the recorder is to write for the hop that succeeded: the caller,
\* the hop's alias name, the provider type of the alias's key, the light
\* model when the substitution applied and the target model when not, the
\* token counts of the response returned, and 200.
ExpectedLogRow ==
    LET row == HopRow(Len(hops))
        tokens == ExpectedTokens(SumLen(openAIReq.messages))
        light == LightEnabled(row) /\ tokens < row.light_model_threshold
    IN [user_id |-> ReqUser,
        alias_used |-> row.alias,
        provider_used |-> provider_keys[row.provider_key_id].provider,
        model_used |-> IF light THEN row.light_model ELSE row.target_model,
        input_tokens |-> body.prompt_tokens,
        output_tokens |-> body.completion_tokens,
        status_code |-> 200]

\* C24: the usage log entry of a successful request holds the requesting
\* user, the alias name of the hop that succeeded, the provider type of that
\* alias's credential, the model placed in the forwarded request (the light
\* model when substitution applied, else the target model), the prompt and
\* completion token counts of the returned response, and status code 200.
C24_LogEntryFields ==
    /\ logTask.state # "none" =>
          /\ logTask.entry = ExpectedLogRow
          /\ logTask.entry.model_used = LastHop.model
          /\ HopRow(Len(hops)).user_id = logTask.entry.user_id
    /\ \A n \in 1..Len(request_logs) : request_logs[n] = ExpectedLogRow

\* A row was written for a fallback hop on which the light model was
\* substituted, with the usage (10, 20) of the response.
C24_Witness ==
    /\ Len(request_logs) = 1
    /\ Len(hops) = 2
    /\ request_logs[1].alias_used = "b"
    /\ request_logs[1].model_used = LightModels[2]
    /\ request_logs[1].input_tokens = 10
    /\ request_logs[1].output_tokens = 20
    /\ request_logs[1].status_code = 200

\* A row was written with the target model of an alias whose light model is
\* enabled, the estimate having reached the threshold.
C24_WitnessTarget ==
    /\ Len(request_logs) = 1
    /\ LightEnabled(HopRow(Len(hops)))
    /\ request_logs[1].model_used = HopRow(Len(hops)).target_model

(***************************************************************************)
(* pkg/management: UpsertModelAlias, PatchModelAlias, and the repository   *)
(* statements behind them                                                  *)
(***************************************************************************)
MaxCalls == 2            \* management calls in one run

\* A JSON value of a request body: null, or a value with its JSON type.
Null == [t |-> "null"]
Str(v) == [t |-> "string", v |-> v]
Num(v) == [t |-> "number", v |-> v]
Bool(v) == [t |-> "bool", v |-> v]

\* Columns of model_aliases a statement can name, with the JSON type a value
\* must have to be stored in the column and whether the column takes NULL.
ColumnType ==
    ("user_id" :> "number") @@ ("alias" :> "string") @@
    ("target_model" :> "string") @@ ("provider_key_id" :> "number") @@
    ("fallback_alias_id" :> "number") @@ ("use_light_model" :> "bool") @@
    ("light_model_threshold" :> "number") @@ ("light_model" :> "string")
NotNullColumns == {"alias", "target_model"}

\* Mutant: the alias name can be patched as well.
allowedPatchColumnsWithAlias ==
    {"alias", "target_model", "provider_key_id", "fallback_alias_id", "use_light_model",
     "light_model_threshold", "light_model"}

\* allowedPatchColumns
allowedPatchColumns ==
    {"target_model", "provider_key_id", "fallback_alias_id", "use_light_model",
     "light_model_threshold", "light_model"}

\* The value a column holds after it was set to a JSON value: NULL is NoID in
\* the id columns and NIL in light_model.
StoredValue(col, val) ==
    IF val = Null
    THEN (IF col \in {"provider_key_id", "fallback_alias_id"} THEN NoID ELSE NIL)
    ELSE val.v

\* The statement's value can be stored in the column.
ColumnAccepts(col, val) ==
    IF val = Null THEN col \notin NotNullColumns ELSE val.t = ColumnType[col]

\* REFERENCES provider_keys(id), REFERENCES model_aliases(id), UNIQUE(user_id, alias)
ConstraintsHold(table) ==
    /\ \A id \in DOMAIN table :
          /\ table[id].provider_key_id \in {NoID} \cup DOMAIN provider_keys
          /\ table[id].fallback_alias_id \in {NoID} \cup DOMAIN table
    /\ \A id1, id2 \in DOMAIN table :
          (table[id1].user_id = table[id2].user_id /\ table[id1].alias = table[id2].alias)
              => id1 = id2

\* Mutant: on a conflict the fallback reference of the stored row is kept.
RepoUpsertModelAliasKeepsFallback(uid, name, targetModel, providerKeyID, fallbackAliasID, useLightModel, lightModelThreshold, lightModel) ==
    LET id == GetModelAlias(uid, name) IN
    IF id # NoID
    THEN [model_aliases EXCEPT ![id] =
            [@ EXCEPT !.target_model = targetModel, !.provider_key_id = providerKeyID,
                      !.use_light_model = useLightModel,
                      !.light_model_threshold = lightModelThreshold,
                      !.light_model = lightModel]]
    ELSE (model_aliases_id_seq + 1 :>
            [user_id |-> uid, alias |-> name, target_model |-> targetModel,
             provider_key_id |-> providerKeyID, fallback_alias_id |-> fallbackAliasID,
             use_light_model |-> useLightModel,
             light_model_threshold |-> lightModelThreshold,
             light_model |-> lightModel]) @@ model_aliases

\* PostgresRepository.UpsertModelAlias: INSERT ... ON CONFLICT (user_id, alias)
\* DO UPDATE SET <the six columns> = EXCLUDED.<column>. The table the
\* statement leaves when it succeeds; the new row takes the next id.
RepoUpsertModelAlias(uid, name, targetModel, providerKeyID, fallbackAliasID, useLightModel, lightModelThreshold, lightModel) ==
    LET id == GetModelAlias(uid, name) IN
    IF id # NoID
    THEN [model_aliases EXCEPT ![id] =
            [@ EXCEPT !.target_model = targetModel, !.provider_key_id = providerKeyID,
                      !.fallback_alias_id = fallbackAliasID,
                      !.use_light_model = useLightModel,
                      !.light_model_threshold = lightModelThreshold,
                      !.light_model = lightModel]]
    ELSE (model_aliases_id_seq + 1 :>
            [user_id |-> uid, alias |-> name, target_model |-> targetModel,
             provider_key_id |-> providerKeyID, fallback_alias_id |-> fallbackAliasID,
             use_light_model |-> useLightModel,
             light_model_threshold |-> lightModelThreshold,
             light_model |-> lightModel]) @@ model_aliases

\* if req.FallbackAliasID != nil && *req.FallbackAliasID <= 0 { req.FallbackAliasID = nil }
\* A pointer field of the request is <<>> (nil) or <<value>>.
NormalizeFallback(ptr) == IF ptr = <<>> \/ ptr[1] <= 0 THEN NoID ELSE ptr[1]

\* if req.LightModel != nil && *req.LightModel == "" { req.LightModel = nil }
NormalizeLightModel(ptr) == IF ptr = <<>> \/ ptr[1] = "" THEN NIL ELSE ptr[1]

\* The answer of a management call is recorded; the tables stay as they are.
Answer(op, uid, name, reqBody, code) ==
    /\ mgmt' = [op |-> op, user |-> uid, alias |-> name, body |-> reqBody,
                status |-> code, calls |-> mgmt.calls + 1]
    /\ UNCHANGED model_aliases

\* Bodies of POST /manage/aliases after decoding: a pointer field is <<>>
\* (nil) or <<value>>.
AliasRequest(name, targetModel, providerKeyID, fallbackAliasID, useLightModel, lightModelThreshold, lightModel) ==
    [alias |-> name, target_model |-> targetModel, provider_key_id |-> providerKeyID,
     fallback_alias_id |-> fallbackAliasID, use_light_model |-> useLightModel,
     light_model_threshold |-> lightModelThreshold, light_model |-> lightModel]

\* var req ModelAliasRequest: the zero value, left by a body that did not decode
NoRequest == AliasRequest("", "", 0, <<>>, FALSE, 0, <<>>)

\* Requests that are stored (with and without a fallback, a fallback of zero,
\* an empty light model, a fallback equal to the id the alias has or gets),
\* requests the handler refuses, and requests the foreign keys refuse.
ModelAliasRequests ==
    { AliasRequest("a", "target-1", 1, <<>>, FALSE, 100, <<>>),
      AliasRequest("a", "target-2", 2, <<2>>, TRUE, LightThreshold, <<"light-1">>),
      AliasRequest("a", "target-1", 1, <<1>>, FALSE, 100, <<"">>),
      AliasRequest("b", "target-2", 2, <<0>>, FALSE, 100, <<>>),
      AliasRequest("b", "target-1", 1, <<1>>, TRUE, LightThreshold, <<"light-2">>),
      AliasRequest("", "target-1", 1, <<>>, FALSE, 100, <<>>),
      AliasRequest("a", "", 1, <<>>, FALSE, 100, <<>>),
      AliasRequest("a", "target-1", 0, <<>>, FALSE, 100, <<>>),
      AliasRequest("a", "target-1", 9, <<>>, FALSE, 100, <<>>),
      AliasRequest("a", "target-1", 1, <<9>>, FALSE, 100, <<>>) }

\* management.UpsertModelAlias
UpsertModelAlias ==
    /\ mgmt.calls < MaxCalls
    /\ \E uid \in Users :
          \/ /\ Answer("upsert", uid, NoRequest.alias, NoRequest, StatusBadRequest)
             /\ UNCHANGED model_aliases_id_seq
          \/ \E req \in ModelAliasRequests, dbOK \in BOOLEAN :
                IF \/ req.alias = ""
                   \/ req.target_model = ""
                   \/ req.provider_key_id <= 0
                THEN /\ Answer("upsert", uid, req.alias, req, StatusBadRequest)
                     /\ UNCHANGED model_aliases_id_seq
                ELSE LET written == RepoUpsertModelAlias(uid, req.alias, req.target_model,
                                        req.provider_key_id,
                                        NormalizeFallback(req.fallback_alias_id),
                                        req.use_light_model,
                                        req.light_model_threshold,
                                        NormalizeLightModel(req.light_model))
                     IN IF ~dbOK
                        THEN /\ Answer("upsert", uid, req.alias, req,
                                       StatusInternalServerError)
                             /\ UNCHANGED model_aliases_id_seq
                        ELSE /\ model_aliases_id_seq' = model_aliases_id_seq + 1
                             /\ IF ConstraintsHold(written)
                                THEN /\ model_aliases' = written
                                     /\ mgmt' = [op |-> "upsert", user |-> uid,
                                                 alias |-> req.alias, body |-> req,
                                                 status |-> StatusOK,
                                                 calls |-> mgmt.calls + 1]
                                ELSE Answer("upsert", uid, req.alias, req,
                                            StatusInternalServerError)
    /\ UNCHANGED <<provider_keys, request_logs, pc, userID, openAIReq, i, currentModel,
                   lastErr, hopVars, status, body, logTask, hops, cfgErr, reqCtx, rlVars, listCall,
                   polling>>

\* Bodies of PATCH /manage/aliases/{alias} after decoding into a map.
Patches ==
    { <<>>,
      ("alias" :> Str("b")) @@ ("user_id" :> Num(2)),
      ("target_model" :> Str("target-2")) @@ ("alias" :> Str("b")) @@ ("user_id" :> Num(2)),
      ("target_model" :> Null),
      ("provider_key_id" :> Num(9)),
      ("fallback_alias_id" :> Null),
      ("fallback_alias_id" :> Num(1)),
      ("fallback_alias_id" :> Num(2)) @@ ("provider_key_id" :> Num(2)),
      ("fallback_alias_id" :> Str("b")),
      ("use_light_model" :> Bool(TRUE)) @@ ("light_model_threshold" :> Num(LightThreshold))
          @@ ("light_model" :> Str("light-1")) }

\* for k, v := range updates { if !allowedPatchColumns[k] { continue }; ... }
Recognized(updates) == {k \in DOMAIN updates : k \in allowedPatchColumns}

\* PostgresRepository.PatchModelAlias: UPDATE model_aliases SET <the recognized
\* columns> WHERE user_id = $1 AND alias = $2. The table the statement leaves
\* when it succeeds.
RepoPatchModelAlias(uid, name, updates) ==
    [id \in DOMAIN model_aliases |->
        IF model_aliases[id].user_id = uid /\ model_aliases[id].alias = name
        THEN [col \in DOMAIN model_aliases[id] |->
                IF col \in Recognized(updates)
                THEN StoredValue(col, updates[col])
                ELSE model_aliases[id][col]]
        ELSE model_aliases[id]]

\* The statement is accepted: the values have the columns' types, and no row it
\* touches breaks a constraint.
PatchAccepted(uid, name, updates) ==
    /\ \A col \in Recognized(updates) : updates[col] = Null \/ updates[col].t = ColumnType[col]
    /\ GetModelAlias(uid, name) # NoID =>
          /\ \A col \in Recognized(updates) : ColumnAccepts(col, updates[col])
          /\ ConstraintsHold(RepoPatchModelAlias(uid, name, updates))

\* management.PatchModelAlias
PatchModelAlias ==
    /\ mgmt.calls < MaxCalls
    /\ \E uid \in Users, name \in {"a", "b"} :
          \/ Answer("patch", uid, name, <<>>, StatusBadRequest)
          \/ \E updates \in Patches, dbOK \in BOOLEAN :
                IF Recognized(updates) = {} \/ ~dbOK \/ ~PatchAccepted(uid, name, updates)
                THEN Answer("patch", uid, name, updates, StatusInternalServerError)
                ELSE /\ model_aliases' = RepoPatchModelAlias(uid, name, updates)
                     /\ mgmt' = [op |-> "patch", user |-> uid, alias |-> name,
                                 body |-> updates, status |-> StatusOK,
                                 calls |-> mgmt.calls + 1]
    /\ UNCHANGED <<provider_keys, request_logs, pc, userID, openAIReq, i, currentModel,
                   lastErr, hopVars, status, body, logTask, hops, cfgErr, reqCtx, rlVars,
                   model_aliases_id_seq, listCall, polling>>

(***************************************************************************)
(* SpecAM: management calls on the alias table                             *)
(***************************************************************************)
\* The table before the calls studied: empty, or three aliases that earlier
\* upserts left (two of the caller, one of another user under the same name).
StoredAliases ==
    (1 :> [user_id |-> 1, alias |-> "a", target_model |-> "target-1",
           provider_key_id |-> 1, fallback_alias_id |-> 2,
           use_light_model |-> FALSE, light_model_threshold |-> 100, light_model |-> NIL]) @@
    (2 :> [user_id |-> 1, alias |-> "b", target_model |-> "target-2",
           provider_key_id |-> 2, fallback_alias_id |-> NoID,
           use_light_model |-> TRUE, light_model_threshold |-> LightThreshold,
           light_model |-> "light-2"]) @@
    (3 :> [user_id |-> 2, alias |-> "a", target_model |-> "target-3",
           provider_key_id |-> 5, fallback_alias_id |-> NoID,
           use_light_model |-> FALSE, light_model_threshold |-> 100, light_model |-> NIL])

InitAM ==
    /\ \/ model_aliases = <<>> /\ model_aliases_id_seq = 0
       \/ model_aliases = StoredAliases /\ model_aliases_id_seq \in {3, 4}
    /\ provider_keys = ProviderKeysTable
    /\ mgmt = NoCall
    /\ listCall = NoListCall
    /\ polling = NoPolling
    /\ request_logs = <<>>
    /\ pc = "done"
    /\ userID = NoID
    /\ openAIReq = NoReqCopy
    /\ i = 0
    /\ currentModel = NIL
    /\ lastErr = FALSE
    /\ alias = NoAlias
    /\ providerType = NIL
    /\ reqCopy = NoReqCopy
    /\ openAIResp = NoResp
    /\ status = NoStatus
    /\ body = NoResp
    /\ logTask = NoTask
    /\ hops = <<>>
    /\ cfgErr = "none"
    /\ reqCtx = "live"
    /\ RLIdle

NextAM ==
    \/ UpsertModelAlias
    \/ PatchModelAlias

SpecAM == InitAM /\ [][NextAM]_vars

(***************************************************************************)
(* Claims on the alias mutation surface                                    *)
(***************************************************************************)
PatchCalled == mgmt'.calls = mgmt.calls + 1 /\ mgmt'.op = "patch"
UpsertCalled == mgmt'.calls = mgmt.calls + 1 /\ mgmt'.op = "upsert"
Absent(col) == IF col \in {"provider_key_id", "fallback_alias_id"} THEN NoID ELSE NIL

\* What one PATCH may do to the table: rows are neither added nor removed; a
\* field changes only if it is one of the six patchable fields, is named in
\* the patch, and belongs to the row of the call's (user, alias name), and it
\* then holds the value given; a patch naming none of the six is answered
\* with an error and changes nothing; a patch answered 200 has set every
\* patchable field it names on the row of the call.
PatchFrame ==
    LET updates == mgmt'.body
        named == DOMAIN updates \cap {"target_model", "provider_key_id",
                                      "fallback_alias_id", "use_light_model",
                                      "light_model_threshold", "light_model"}
        given(col) == IF updates[col].t = "null" THEN Absent(col) ELSE updates[col].v
        target(id) == /\ model_aliases[id].user_id = mgmt'.user
                      /\ model_aliases[id].alias = mgmt'.alias
    IN /\ DOMAIN model_aliases' = DOMAIN model_aliases
       /\ \A id \in DOMAIN model_aliases :
             \A col \in DOMAIN model_aliases[id] :
                /\ model_aliases'[id][col] # model_aliases[id][col] =>
                      /\ col \in named
                      /\ target(id)
                      /\ model_aliases'[id][col] = given(col)
                /\ (mgmt'.status = StatusOK /\ target(id) /\ col \in named) =>
                      model_aliases'[id][col] = given(col)
       /\ named = {} =>
             /\ mgmt'.status \in {StatusBadRequest, StatusInternalServerError}
             /\ model_aliases' = model_aliases

\* C25: PatchModelAlias changes only the whitelisted fields named in the
\* patch, only on the row of the given (user, alias name); other field names
\* are ignored, fields not named keep their value, and a patch with no
\* recognized field is rejected with an error and leaves every alias unchanged.
C25_PatchChangesNamedWhitelistedFields == [][PatchCalled => PatchFrame]_vars

\* A patch naming target_model next to alias and user_id was answered 200: the
\* caller's alias "a" has the new target model and its name and owner, and
\* the alias "a" of the other user is as it was.
C25_Witness ==
    /\ mgmt.op = "patch"
    /\ mgmt.status = StatusOK
    /\ mgmt.user = 1
    /\ mgmt.alias = "a"
    /\ {"alias", "user_id", "target_model"} \subseteq DOMAIN mgmt.body
    /\ DOMAIN model_aliases = {1, 2, 3}
    /\ model_aliases[1] = [StoredAliases[1] EXCEPT !.target_model = "target-2"]
    /\ model_aliases[3] = StoredAliases[3]

\* UNIQUE(user_id, alias)
OneAliasPerName ==
    \A id1, id2 \in DOMAIN model_aliases :
        (/\ model_aliases[id1].user_id = model_aliases[id2].user_id
         /\ model_aliases[id1].alias = model_aliases[id2].alias) => id1 = id2

\* What an upsert answered 200 has done: the one alias of the call's (user,
\* alias name) holds the request's six values (a fallback that is nil or not
\* positive and a light model that is nil or empty being stored as absent),
\* on the row it was on if it existed; every other alias is as it was; and
\* the same upsert made again changes nothing.
UpsertEffect ==
    LET req == mgmt'.body
        hit(table) == {id \in DOMAIN table : /\ table[id].user_id = mgmt'.user
                                              /\ table[id].alias = req.alias}
        fallback == IF req.fallback_alias_id = <<>> THEN NoID
                    ELSE IF req.fallback_alias_id[1] <= 0 THEN NoID
                    ELSE req.fallback_alias_id[1]
        light == IF req.light_model \in {<<>>, <<"">>} THEN NIL ELSE req.light_model[1]
    IN /\ Cardinality(hit(model_aliases')) = 1
       /\ hit(model_aliases) \subseteq hit(model_aliases')
       /\ \A id \in hit(model_aliases') :
             /\ model_aliases'[id].target_model = req.target_model
             /\ model_aliases'[id].provider_key_id = req.provider_key_id
             /\ model_aliases'[id].fallback_alias_id = fallback
             /\ model_aliases'[id].use_light_model = req.use_light_model
             /\ model_aliases'[id].light_model_threshold = req.light_model_threshold
             /\ model_aliases'[id].light_model = light
       /\ DOMAIN model_aliases' = DOMAIN model_aliases \cup hit(model_aliases')
       /\ \A id \in DOMAIN model_aliases \ hit(model_aliases') :
             model_aliases'[id] = model_aliases[id]
       /\ (/\ mgmt.op = "upsert" /\ mgmt.status = StatusOK
            /\ mgmt.user = mgmt'.user /\ mgmt.body = req) =>
             model_aliases' = model_aliases

\* C26: after any sequence of alias upserts there is at most one alias per
\* (user, alias name); an upsert on an existing (user, alias name) overwrites
\* target model, provider reference, fallback reference and the three
\* light-model fields with the new values and leaves the aliases of other
\* users and other names unchanged; repeating the same upsert does not change
\* the state.
C26_UpsertOverwritesOneAlias ==
    /\ []OneAliasPerName
    /\ [][(UpsertCalled /\ mgmt'.status = StatusOK) => UpsertEffect]_vars

\* The caller's alias "a" was overwritten in all six fields, twice: it is on
\* the row it was on, no row was added, and the other aliases are as they were.
C26_Witness ==
    /\ mgmt.op = "upsert"
    /\ mgmt.status = StatusOK
    /\ mgmt.calls = 2
    /\ mgmt.user = 1
    /\ mgmt.alias = "a"
    /\ DOMAIN model_aliases = {1, 2, 3}
    /\ model_aliases_id_seq >= 5
    /\ model_aliases[1] = [user_id |-> 1, alias |-> "a", target_model |-> "target-2",
                           provider_key_id |-> 2, fallback_alias_id |-> 2,
                           use_light_model |-> TRUE,
                           light_model_threshold |-> LightThreshold,
                           light_model |-> "light-1"]
    /\ model_aliases[2] = StoredAliases[2]
    /\ model_aliases[3] = StoredAliases[3]

\* C27: after any sequence of alias upserts and patches, every stored alias
\* whose fallback reference is present points to a different alias than
\* itself.
C27_FallbackIsAnotherAlias ==
    \A id \in DOMAIN model_aliases :
        model_aliases[id].fallback_alias_id # NoID =>
            model_aliases[id].fallback_alias_id # id

(***************************************************************************)
(* Provider.ListModels (AnthropicProvider, OpenAIProvider, GeminiProvider) *)
(***************************************************************************)
\* Statuses the catalog endpoint may answer with.
UpstreamStatuses ==
    {StatusOK, StatusBadRequest, StatusUnauthorized, StatusNotFound,
     StatusTooManyRequests, StatusInternalServerError, StatusBadGateway}

\* Bodies of a catalog answer: the ids of data[], or a body that does not decode.
Undecodable == <<"<undecodable>">>
UpstreamCatalogs == {<<>>, <<"model-1">>, <<"model-1", "model-2">>, Undecodable}

\* The list AnthropicProvider.ListModels returns on a 404.
HardcodedModels ==
    <<"claude-3-5-sonnet-20240620", "claude-3-opus-20240229",
      "claude-3-sonnet-20240229", "claude-3-haiku-20240307">>

\* Mutant: every provider falls back to the hardcoded list on a 404.
HardcodedOnNotFoundEveryProvider(provider, code) == code = StatusNotFound

\* if resp.StatusCode == http.StatusNotFound { return []string{...}, nil }
\* (AnthropicProvider only)
HardcodedOnNotFound(provider, code) == provider = "anthropic" /\ code = StatusNotFound

\* What ListModels returns: the models and the error ("none": nil).
ListModelsResult(call) ==
    IF ~call.keyOK
    THEN [models |-> <<>>, err |-> "provider configuration not found"]
    ELSE IF ~call.decryptOK
    THEN [models |-> <<>>, err |-> "failed to decrypt provider key"]
    ELSE IF ~call.transportOK
    THEN [models |-> <<>>, err |-> "upstream request failed"]
    ELSE IF call.upstreamStatus # StatusOK
    THEN (IF HardcodedOnNotFound(call.provider, call.upstreamStatus)
          THEN [models |-> HardcodedModels, err |-> "none"]
          ELSE [models |-> <<>>, err |-> "upstream error"])
    ELSE IF call.upstreamBody = Undecodable
    THEN [models |-> <<>>, err |-> "failed to decode upstream response"]
    ELSE [models |-> call.upstreamBody, err |-> "none"]

\* prov.ListModels(ctx)
ListModels ==
    /\ listCall.state = "called"
    /\ listCall' = [listCall EXCEPT !.state = "returned",
                                    !.result = ListModelsResult(listCall)]
    /\ UNCHANGED <<proxyVars, rlVars, model_aliases_id_seq, mgmt, polling>>

\* A ListModels call of each provider, with each outcome of the key lookup,
\* the decryption and the transport, and each answer of the catalog endpoint.
InitLS ==
    /\ ProxyIdle
    /\ RLIdle
    /\ model_aliases_id_seq = 0
    /\ mgmt = NoCall
    /\ listCall \in [state : {"called"}, provider : SupportedProviders,
                      keyOK : BOOLEAN, decryptOK : BOOLEAN, transportOK : BOOLEAN,
                      upstreamStatus : UpstreamStatuses, upstreamBody : UpstreamCatalogs,
                      result : {[models |-> <<>>, err |-> "none"]}]
    /\ polling = NoPolling

NextLS == ListModels

SpecLS == InitLS /\ [][NextLS]_vars

\* The call got an answer of status code from the catalog endpoint.
Answered(code) ==
    /\ listCall.state = "returned"
    /\ listCall.keyOK /\ listCall.decryptOK /\ listCall.transportOK
    /\ listCall.upstreamStatus = code

\* C28: AnthropicProvider.ListModels returns the fixed hardcoded list and no
\* error when the catalog endpoint answers 404 and an error for every other
\* non-200 status; the openai and gemini ListModels return an error for every
\* non-200 status, 404 included.
C28_HardcodedListOnlyForAnthropic404 ==
    \A code \in UpstreamStatuses \ {200} :
        Answered(code) =>
            IF listCall.provider = "anthropic" /\ code = 404
            THEN /\ listCall.result.err = "none"
                 /\ listCall.result.models =
                        <<"claude-3-5-sonnet-20240620", "claude-3-opus-20240229",
                          "claude-3-sonnet-20240229", "claude-3-haiku-20240307">>
            ELSE /\ listCall.result.err # "none"
                 /\ listCall.result.models = <<>>

\* The catalog endpoint answered an openai call with 404: an error came back.
C28_WitnessOpenAI ==
    /\ Answered(404)
    /\ listCall.provider = "openai"
    /\ listCall.result.err = "upstream error"

\* The catalog endpoint answered an anthropic call with 404: the list came back.
C28_Witness ==
    /\ Answered(404)
    /\ listCall.provider = "anthropic"
    /\ listCall.result.err = "none"
    /\ Len(listCall.result.models) = 4

(***************************************************************************)
(* SpecGW: r.With(ratelimit.RateLimitMiddleware).Post(..., ps.ProxyHandler) *)
(*                                                                         *)
(* Requests pass the middleware concurrently; the handler calls they lead  *)
(* to run one after the other, each to its end, its insert included.       *)
(***************************************************************************)
\* Mutant: the middleware goes on to next after a 429 (http.Error without return).
ServeHTTPAfterReject(w) ==
    /\ \/ rl[w].pc = "next"
       \/ rl[w].pc = "done" /\ rl[w].status = StatusTooManyRequests
    /\ pc = "done"
    /\ logTask.state # "pending"
    /\ \A v \in DOMAIN rl : rl[v].pc # "serving"
    /\ rl' = [rl EXCEPT ![w].pc = "serving"]
    /\ pc' = "start"
    /\ userID' = NoID
    /\ i' = 0
    /\ currentModel' = NIL
    /\ lastErr' = FALSE
    /\ alias' = NoAlias
    /\ providerType' = NIL
    /\ reqCopy' = NoReqCopy
    /\ openAIResp' = NoResp
    /\ status' = NoStatus
    /\ body' = NoResp
    /\ logTask' = NoTask
    /\ hops' = <<>>
    /\ cfgErr' = "none"
    /\ reqCtx' = "live"
    /\ UNCHANGED <<storeVars, request_logs, openAIReq, mgmtVars, now, users, defaultLimits,
                   limitsCache, minuteBuckets, otherBuckets, bucketMu, requestsToday,
                   arrivals, admitted>>

\* next.ServeHTTP(w, r): ProxyHandler is entered with the request's context.
ServeHTTP(w) ==
    /\ rl[w].pc = "next"
    /\ pc = "done"
    /\ logTask.state # "pending"
    /\ \A v \in DOMAIN rl : rl[v].pc # "serving"
    /\ rl' = [rl EXCEPT ![w].pc = "serving"]
    /\ pc' = "start"
    /\ userID' = NoID
    /\ i' = 0
    /\ currentModel' = NIL
    /\ lastErr' = FALSE
    /\ alias' = NoAlias
    /\ providerType' = NIL
    /\ reqCopy' = NoReqCopy
    /\ openAIResp' = NoResp
    /\ status' = NoStatus
    /\ body' = NoResp
    /\ logTask' = NoTask
    /\ hops' = <<>>
    /\ cfgErr' = "none"
    /\ reqCtx' = "live"
    /\ UNCHANGED <<storeVars, request_logs, openAIReq, mgmtVars, now, users, defaultLimits,
                   limitsCache, minuteBuckets, otherBuckets, bucketMu, requestsToday,
                   arrivals, admitted>>

\* ProxyHandler has returned, and with it next.ServeHTTP and the middleware.
ServeHTTPReturn(w) ==
    /\ rl[w].pc = "serving"
    /\ pc = "done"
    /\ rl' = [rl EXCEPT ![w].pc = "done", ![w].reason = "next"]
    /\ UNCHANGED <<proxyVars, mgmtVars, now, users, defaultLimits, limitsCache,
                   minuteBuckets, otherBuckets, bucketMu, requestsToday, arrivals,
                   admitted>>

\* Alias "a" on an openai key falling back to "b" on an anthropic key, which
\* falls back to "a".
GWAliases ==
    (1 :> [user_id |-> ReqUser, alias |-> "a", target_model |-> TargetModels[1],
           provider_key_id |-> 2, fallback_alias_id |-> 2,
           use_light_model |-> FALSE, light_model_threshold |-> 100, light_model |-> NIL]) @@
    (2 :> [user_id |-> ReqUser, alias |-> "b", target_model |-> TargetModels[2],
           provider_key_id |-> 1, fallback_alias_id |-> 1,
           use_light_model |-> FALSE, light_model_threshold |-> 100, light_model |-> NIL])

InitGW ==
    /\ model_aliases = GWAliases
    /\ provider_keys = ProviderKeysTable
    /\ request_logs = <<>>
    /\ pc = "done"
    /\ userID = NoID
    /\ openAIReq = [model |-> "a", messages |-> <<[role |-> "user", content |-> Hello]>>,
                    max_tokens |-> 0]
    /\ i = 0
    /\ currentModel = NIL
    /\ lastErr = FALSE
    /\ alias = NoAlias
    /\ providerType = NIL
    /\ reqCopy = NoReqCopy
    /\ openAIResp = NoResp
    /\ status = NoStatus
    /\ body = NoResp
    /\ logTask = NoTask
    /\ hops = <<>>
    /\ cfgErr = "none"
    /\ reqCtx = "live"
    /\ MgmtIdle
    /\ now = 0
    /\ users \in [{ReqUser} -> UserRows]
    /\ defaultLimits = [minute |-> 0, daily |-> 0]
    /\ limitsCache = <<>>
    /\ minuteBuckets = <<>>
    /\ otherBuckets = <<>>
    /\ bucketMu = NoID
    /\ requestsToday = [u \in DOMAIN users |-> 0]
    /\ rl = [w \in Workers |-> IdleCall]
    /\ arrivals = 0
    /\ admitted = <<>>

NextGW ==
    \/ \E w \in Workers :
          \/ Arrive(w)
          \/ QueryLimits(w)
          \/ DailyCheck(w)
          \/ MinuteCheck(w)
          \/ BucketRead(w)
          \/ BucketIncrement(w)
          \/ ServeHTTP(w)
          \/ ServeHTTPReturn(w)
    \/ Start
    \/ LoopHead
    \/ ResolveAlias
    \/ FetchProviderKey
    \/ SelectProvider
    \/ ProvSend
    \/ SendReturn
    \/ HandleSendError
    \/ WriteResponse
    \/ StartLogging
    \/ LoopExit
    \/ InsertRequestLog

SpecGW == InitGW /\ [][NextGW]_vars

(***************************************************************************)
(* C29: the rate limiter gates the orchestrator                            *)
(***************************************************************************)
Invoked(w) == rl[w].pc # "serving" /\ rl'[w].pc = "serving"

\* The middleware has written the response of the request on w itself.
Rejected(w) ==
    /\ rl'[w].pc = "done"
    /\ rl'[w].reason # "next"
    /\ rl[w].pc # "done" \/ arrivals' # arrivals

DailyPassedOrSkipped(w) ==
    /\ rl[w].pc = "daily"
    /\ \/ ~(rl[w].dailyLimit > 0)
       \/ requestsToday[rl[w].user] < rl[w].dailyLimit

MinutePassedOrSkipped(w) ==
    \/ rl[w].pc = "minute" /\ ~(rl[w].minuteLimit > 0)
    \/ rl[w].pc = "write" /\ rl[w].count < rl[w].minuteLimit

\* The steps of the request on w: the handler is entered only from the end
\* of the checks, that end is reached only through both checks with an
\* identity, and from it nothing else is done; a rejection carries 401
\* without identity and 429 or 500 with one, and touches nothing of the
\* handler, the store or the log.
GateStep(w) ==
    /\ Invoked(w) =>
          /\ rl[w].pc = "next"
          /\ rl[w].user # NoID
          /\ rl[w].status = NoStatus
          /\ pc' = "start"
    /\ (rl[w].pc # "next" /\ rl'[w].pc = "next") => MinutePassedOrSkipped(w)
    /\ (rl[w].pc # "minute" /\ rl'[w].pc = "minute") => DailyPassedOrSkipped(w)
    /\ (rl[w].pc # "daily" /\ rl'[w].pc = "daily") => rl'[w].user # NoID
    /\ (rl[w].pc = "next" /\ rl'[w] # rl[w]) => Invoked(w)
    /\ Rejected(w) =>
          /\ rl'[w].status = StatusUnauthorized <=> rl'[w].user = NoID
          /\ rl'[w].status \in {StatusUnauthorized, StatusTooManyRequests,
                                StatusInternalServerError}
          /\ UNCHANGED proxyVars
    /\ (rl[w].pc = "done" /\ rl[w].reason # "next") => ~Invoked(w)

\* Alias lookups, upstream calls and log rows belong to an invoked request.
HandlerStep ==
    /\ (pc' # pc \/ alias' # alias \/ hops' # hops \/ logTask'.entry # logTask.entry) =>
          \E w \in DOMAIN rl : rl[w].pc = "serving" \/ Invoked(w)
    /\ request_logs' # request_logs =>
          /\ logTask.state = "pending"
          /\ request_logs' = Append(request_logs, logTask.entry)
          /\ logTask.entry.user_id # NoID

\* The handler works for the user the middleware admitted.
ServesAdmittedUser ==
    \A w \in DOMAIN rl :
        (rl[w].pc = "serving" /\ pc # "start") =>
            /\ rl[w].user # NoID
            /\ userID \in {NoID, rl[w].user}
            /\ userID = NoID => pc = "done" /\ status = StatusBadRequest

\* C29: the handler (alias resolution, upstream calls, usage log) is entered
\* for a request exactly when the request carries a user identity and the
\* daily and the minute check each passed or was skipped; a request without
\* identity is answered 401, a rejected one 429 or 500, and neither looks up
\* an alias, calls a provider or logs usage.
C29_LimiterGatesHandler ==
    /\ []ServesAdmittedUser
    /\ [][HandlerStep /\ \A w \in DOMAIN rl : GateStep(w)]_vars

\* One request was rejected on the daily count while another one, admitted,
\* has its usage logged.
C29_Witness ==
    /\ Len(request_logs) = 1
    /\ \E w \in DOMAIN rl : rl[w].pc = "done" /\ rl[w].reason = "daily"
    /\ \E w \in DOMAIN rl : rl[w].pc = "done" /\ rl[w].reason = "next"

\* A request without identity was answered 401 with the handler untouched.
C29_WitnessUnauthorized ==
    /\ \E w \in DOMAIN rl : rl[w].pc = "done" /\ rl[w].status = StatusUnauthorized
    /\ pc = "done" /\ hops = <<>> /\ request_logs = <<>>
    /\ arrivals = MaxArrivals

\* A request passed the minute bucket and its handler called a provider.
C29_WitnessMinute ==
    /\ \E w \in DOMAIN rl : rl[w].pc = "serving" /\ rl[w].minuteLimit > 0
    /\ Len(hops) = 1

(***************************************************************************)
(* C30: usage-log rows of a day against the daily limit                    *)
(***************************************************************************)
RowsOf(u) == Cardinality({k \in DOMAIN request_logs : request_logs[k].user_id = u})

\* C30: with a non-zero daily limit L and no minute limit, the rows logged
\* for the user in one day never exceed L, however the user's concurrent
\* requests interleave.
C30_DailyRowsWithinLimit ==
    \A u \in DOMAIN users :
        LET L == resolveLimit(users[u].daily, defaultLimits.daily)
            M == resolveLimit(users[u].minute, defaultLimits.minute)
        IN (L # 0 /\ ~(M > 0)) => RowsOf(u) <= L

(***************************************************************************)
(* C31: the attempts of one request are strictly sequential                *)
(***************************************************************************)
InFlight == {k \in 1..Len(hops) : hops[k].result = "pending"}

\* C31: within one request at most one upstream call is in flight; an attempt
\* is started only when every earlier attempt has returned a failure, so the
\* fallback attempt follows the primary's failure and nothing follows a
\* success.
C31_SequentialAttempts ==
    /\ Cardinality(InFlight) <= 1
    /\ \A k \in 1..Len(hops) : k < Len(hops) => hops[k].result = "err"
    /\ InFlight # {} <=> pc = "await"
    /\ pc \in {"ok", "log"} => hops[Len(hops)].result = "ok"

\* The fallback attempt is in flight after the primary attempt has failed.
C31_Witness ==
    /\ Len(hops) = 2
    /\ hops[1].result = "err"
    /\ hops[2].result = "pending"
    /\ hops[2].row # hops[1].row

\* The primary attempt succeeded and the request ended without another one.
C31_WitnessSuccess ==
    /\ pc = "done"
    /\ Len(hops) = 1
    /\ hops[1].result = "ok"
    /\ model_aliases[hops[1].row].fallback_alias_id # NoID

(***************************************************************************)
(* C32: a request stays within the rows of its user                        *)
(***************************************************************************)
\* The credential read for the Send of hop k (Send reads it again by the
\* key id and the user the provider was built with).
HopKey(k) == provider_keys[hops[k].key]

OwnRowsOnHop(k) ==
    /\ hops[k].row \in DOMAIN model_aliases
    /\ HopRow(k).user_id = userID
    /\ hops[k].key \in DOMAIN provider_keys
    /\ HopKey(k).user_id = userID
    /\ hops[k].key = HopRow(k).provider_key_id
    /\ hops[k].provider = HopKey(k).provider

\* C32: whatever rows the users have stored, every upstream attempt of a
\* request of user U is made with an alias row of U and a provider key of U;
\* a provider reference or a fallback reference that points at another
\* user's row never brings that user's key to a Send.
C32_OwnAliasAndCredential ==
    /\ \A k \in 1..Len(hops) : OwnRowsOnHop(k)
    /\ alias # NoAlias => alias.user_id = userID
    /\ pc \in {"provider", "send", "await", "ok", "log"} =>
          provider_keys[alias.provider_key_id].user_id = userID

\* The primary alias falls back to a row of another user, and a second
\* attempt was made all the same (the name of that row is also a name of the
\* caller).
C32_Witness ==
    /\ Len(hops) = 2
    /\ HopRow(1).fallback_alias_id \in DOMAIN model_aliases
    /\ model_aliases[HopRow(1).fallback_alias_id].user_id # userID

\* The alias of the caller refers to a key of another user: no attempt.
C32_WitnessForeignKey ==
    /\ pc = "done"
    /\ cfgErr = "key"
    /\ alias.provider_key_id \in DOMAIN provider_keys
    /\ provider_keys[alias.provider_key_id].user_id # userID
    /\ hops = <<>>

(***************************************************************************)
(* C33: the row used on the fallback hop                                   *)
(***************************************************************************)
\* C33: whatever alias rows the users have stored, the alias row used on the
\* fallback hop is the row the primary alias's fallback reference names:
\* turning the id into a name and resolving (user, name) lands on that row,
\* on the fallback iteration the handler works on no other row.
C33_FallbackHopUsesReferencedRow ==
    /\ Len(hops) = 2 => hops[2].row = HopRow(1).fallback_alias_id
    /\ (i = 1 /\ pc \in {"key", "provider", "send", "await", "ok", "log", "err"}) =>
          alias.id = HopRow(1).fallback_alias_id

(***************************************************************************)
(* C34: eviction of the minute-counter map                                 *)
(***************************************************************************)
Evicted == {key \in DOMAIN minuteBuckets : key \notin DOMAIN minuteBuckets'}

\* A request that has built key and has not yet read its counter.
AwaitsCounter(key) ==
    \E w \in DOMAIN rl : rl'[w].pc = "lock" /\ <<rl'[w].user, rl'[w].minute>> = key

\* The counters written by the step, with the key of the request that wrote.
WrittenBuckets ==
    IF \E w \in DOMAIN rl : rl[w].pc = "write" /\ rl'[w].pc = "next"
    THEN LET w == CHOOSE v \in DOMAIN rl : rl[v].pc = "write" /\ rl'[v].pc = "next"
         IN (<<rl[w].user, rl[w].minute>> :> rl[w].count + 1) @@ minuteBuckets
    ELSE minuteBuckets

\* C34: when an admission leaves the map with more than the ceiling of
\* entries, every key of another minute than the current one is removed in
\* that same step, under the lock; a key of the current minute is never
\* removed; no counter is removed that a request can still use for its
\* admission; after a pass the map holds keys of the current minute only.
C34_EvictionKeepsUsableCounters ==
    [][/\ \A key \in Evicted :
             /\ key[2] # Minute(now)
             /\ ~AwaitsCounter(key)
       /\ (minuteBuckets' # minuteBuckets \/ otherBuckets' # otherBuckets) =>
             IF BucketsLen(WrittenBuckets, otherBuckets') > PruneCeiling
                \/ (otherBuckets' # otherBuckets /\ Evicted # {})
             THEN /\ \A key \in DOMAIN minuteBuckets' : key[2] = Minute(now)
                  /\ \A m \in DOMAIN otherBuckets' : m = Minute(now)
             ELSE Evicted = {}]_vars

(***************************************************************************)
(* C35: minute-limit decisions of a user against the requests of others    *)
(***************************************************************************)
\* A step made by requests of users outside the users table alone.
OtherUsersStep ==
    /\ otherBuckets' # otherBuckets
    /\ rl' = rl
    /\ now' = now

\* The keys whose counter decides a request of a user of the table: the
\* keys of the current minute and the keys held by requests on their way to
\* the counter.
UsableKeys ==
    {<<u, Minute(now)>> : u \in DOMAIN users} \cup
    {<<rl[w].user, rl[w].minute>> : w \in {v \in DOMAIN rl : rl[v].pc \in {"lock", "write"}}}

\* What the minute decision of a request of the user is made from.
MinuteView == [key \in UsableKeys |-> BucketCount(key)]

\* C35: the requests of other users change nothing a minute decision of the
\* user is made from (eviction passes included): two runs with the same
\* requests of the user, differing in the requests of others only, decide
\* every request of the user alike.
C35_MinuteDecisionsIsolated ==
    [][OtherUsersStep => MinuteView' = MinuteView]_vars

(***************************************************************************)
(* SpecGWFair: SpecGW in which every call returns                          *)
(*                                                                         *)
(* Every repository call, every upstream call and every lock request       *)
(* returns, and a goroutine that can run is run: a step other than the     *)
(* arrival of a new request is taken when one stays possible.              *)
(***************************************************************************)
Returns ==
    \/ \E w \in Workers :
          \/ QueryLimits(w)
          \/ DailyCheck(w)
          \/ MinuteCheck(w)
          \/ BucketRead(w)
          \/ BucketIncrement(w)
          \/ ServeHTTP(w)
          \/ ServeHTTPReturn(w)
    \/ Start
    \/ LoopHead
    \/ ResolveAlias
    \/ FetchProviderKey
    \/ SelectProvider
    \/ ProvSend
    \/ SendReturn
    \/ HandleSendError
    \/ WriteResponse
    \/ StartLogging
    \/ LoopExit
    \/ InsertRequestLog

SpecGWFair == InitGW /\ [][NextGW]_vars /\ WF_vars(Returns)

(***************************************************************************)
(* C36: every request ends with exactly one status                         *)
(***************************************************************************)
HandlerStatuses ==
    {StatusOK, StatusBadRequest, StatusUnauthorized, StatusNotFound,
     StatusInternalServerError, StatusBadGateway, StatusLoopDetected}
CallerStatuses == HandlerStatuses \cup {StatusTooManyRequests}

\* The request on w ends in this step.
Ends(w) ==
    /\ rl'[w].pc = "done"
    /\ rl[w].pc # "done" \/ arrivals' # arrivals

\* The one status the caller of the request ending on w sees: the
\* middleware's when it rejected, the handler's when it called the handler.
EndsWithOneStatus(w) ==
    IF rl'[w].reason = "next"
    THEN /\ rl'[w].status = NoStatus
         /\ status \in HandlerStatuses
         /\ pc = "done"
    ELSE /\ rl'[w].status \in {StatusUnauthorized, StatusTooManyRequests,
                                StatusInternalServerError}
         /\ rl[w].pc # "serving"

\* A status once written stays: the handler's until the next request enters
\* it, the middleware's until the next request arrives.
WrittenOnce ==
    /\ (status # NoStatus /\ status' # status) =>
          /\ status' = NoStatus
          /\ \E w \in DOMAIN rl : Invoked(w)
    /\ \A w \in DOMAIN rl :
          (rl[w].status # NoStatus /\ rl'[w].status # rl[w].status) =>
             arrivals' # arrivals
    /\ (pc # "done" /\ status # NoStatus) => (pc = "log" /\ status = StatusOK)

\* C36: provided every repository call and every upstream call returns,
\* every request eventually ends, with exactly one status for its caller, one
\* of 200, 400, 401, 404, 429, 500, 502 and 508, and no status is written
\* after that one.
C36_EndsWithOneStatus ==
    /\ \A w \in Workers : (rl[w].pc \notin {"idle", "done"}) ~> (rl[w].pc = "done")
    /\ [][WrittenOnce /\ \A w \in DOMAIN rl : Ends(w) => EndsWithOneStatus(w)]_vars

\* A request ended 502 after two failed attempts while another was turned
\* away with 429.
C36_Witness ==
    /\ pc = "done" /\ status = StatusBadGateway /\ Len(hops) = 2
    /\ \E w \in DOMAIN rl : rl[w].pc = "done" /\ rl[w].reason = "next"
    /\ \E w \in DOMAIN rl : rl[w].pc = "done" /\ rl[w].status = StatusTooManyRequests

(***************************************************************************)
(* SpecCX: one request through ProxyHandler whose caller may go away       *)
(***************************************************************************)
\* The caller disconnects (or the request's deadline passes): net/http
\* cancels r.Context(); the transport aborts the upstream calls in flight
\* that were built with it.
Cancel ==
    /\ pc # "done"
    /\ reqCtx = "live"
    /\ reqCtx' = "cancelled"
    /\ hops' = [k \in DOMAIN hops |->
                  IF hops[k].result = "pending" /\ hops[k].ctx = "request"
                  THEN [hops[k] EXCEPT !.result = "cancelled"]
                  ELSE hops[k]]
    /\ UNCHANGED <<storeVars, request_logs, pc, userID, openAIReq, i, currentModel,
                   lastErr, hopVars, status, body, logTask, cfgErr, rlVars, mgmtVars>>

InitCX ==
    /\ model_aliases = GWAliases
    /\ provider_keys = ProviderKeysTable
    /\ request_logs = <<>>
    /\ pc = "start"
    /\ userID = NoID
    /\ openAIReq \in [model : RequestModels, messages : RequestMessages, max_tokens : {0}]
    /\ i = 0
    /\ currentModel = NIL
    /\ lastErr = FALSE
    /\ alias = NoAlias
    /\ providerType = NIL
    /\ reqCopy = NoReqCopy
    /\ openAIResp = NoResp
    /\ status = NoStatus
    /\ body = NoResp
    /\ logTask = NoTask
    /\ hops = <<>>
    /\ cfgErr = "none"
    /\ reqCtx = "live"
    /\ RLIdle
    /\ MgmtIdle

NextCX ==
    \/ Start
    \/ LoopHead
    \/ ResolveAlias
    \/ FetchProviderKey
    \/ SelectProvider
    \/ ProvSend
    \/ SendReturn
    \/ HandleSendError
    \/ WriteResponse
    \/ StartLogging
    \/ LoopExit
    \/ InsertRequestLog
    \/ Cancel

SpecCX == InitCX /\ [][NextCX]_vars

(***************************************************************************)
(* C37: cancellation reaches the upstream call                             *)
(***************************************************************************)
\* C37: on every hop Send is issued with the context of the inbound
\* request, so when the request is cancelled while an upstream call is in
\* flight that call is cancelled too: once the request is cancelled none of
\* its upstream calls is running, and a cancelled call is the request's last.
C37_CancellationReachesUpstream ==
    /\ \A k \in 1..Len(hops) : hops[k].ctx = "request"
    /\ reqCtx = "cancelled" => \A k \in 1..Len(hops) : hops[k].result # "pending"
    /\ \A k \in 1..Len(hops) : hops[k].result = "cancelled" => k = Len(hops)
    /\ \A k \in 1..Len(hops) : hops[k].result = "cancelled" => reqCtx = "cancelled"

\* The request was cancelled while its first upstream call was in flight:
\* the call was cancelled, Send returned an error, and the request ended 502
\* without trying the fallback alias it has.
C37_Witness ==
    /\ pc = "done"
    /\ reqCtx = "cancelled"
    /\ Len(hops) = 1
    /\ hops[1].result = "cancelled"
    /\ status = StatusBadGateway
    /\ alias.fallback_alias_id # NoID

\* The fallback call was cancelled in flight.
C37_WitnessFallback ==
    /\ pc = "await"
    /\ Len(hops) = 2
    /\ hops[1].result = "err"
    /\ hops[2].result = "cancelled"

(***************************************************************************)
(* SpecMP: main() and management.StartModelPolling                         *)
(*                                                                         *)
(* polling.main   where main() is: "init" (database open), "poll" (inside  *)
(*                the pollModels call of StartModelPolling), "routes"      *)
(*                (StartModelPolling has returned), "serve" (inside        *)
(*                ListenAndServe), "exit"                                  *)
(* polling.loop   the goroutine of StartModelPolling: "none", "wait" (in   *)
(*                the select), "poll" (inside pollModels), "exit"          *)
(* polling.keys   the rows pollModels got from the repository              *)
(* polling.next   the row pollModels polls next                            *)
(***************************************************************************)
MaxPolls == 2            \* ticks of the 12-hour ticker in one run

\* SELECT DISTINCT ON (provider) id, user_id, provider FROM provider_keys: one
\* row per provider, for anthropic either of the two stored.
UniqueProviderKeys ==
    { <<k, 2, 3, 4>> : k \in {id \in DOMAIN ProviderKeysTable :
                                 ProviderKeysTable[id].provider = "anthropic"} }

\* What pollModels gets from ListUniqueProviderKeysPerProvider: the rows, or
\* nothing to poll on an error.
PolledKeys == UniqueProviderKeys \cup {<<>>}

\* management.StartModelPolling(context.Background()) is called by main and
\* runs pollModels itself: "1. Initial run on startup".
StartModelPolling ==
    /\ polling.main = "init"
    /\ \E keys \in PolledKeys :
          polling' = [polling EXCEPT !.main = "poll", !.keys = keys, !.next = 1]
    /\ UNCHANGED <<proxyVars, rlVars, model_aliases_id_seq, mgmt, listCall>>

PollRunning == polling.main = "poll" \/ polling.loop = "poll"

\* for _, k := range results { ... prov.ListModels(ctx) ... InsertProviderModel }
\* One provider is polled: its ListModels call returns a list or an error.
PollKey ==
    /\ PollRunning
    /\ polling.next <= Len(polling.keys)
    /\ LET k == polling.keys[polling.next]
           provider == ProviderKeysTable[k].provider
       IN \E listed \in BOOLEAN :
             polling' = [polling EXCEPT
                           !.next = @ + 1,
                           !.catalog = IF listed /\ provider \in SupportedProviders
                                       THEN @ \cup {provider} ELSE @]
    /\ UNCHANGED <<proxyVars, rlVars, model_aliases_id_seq, mgmt, listCall>>

\* pollModels returns. In StartModelPolling the ticker is made and the
\* goroutine started, and StartModelPolling returns to main; in the
\* goroutine the select is entered again.
PollReturn ==
    /\ PollRunning
    /\ polling.next > Len(polling.keys)
    /\ polling' = IF polling.main = "poll"
                  THEN [polling EXCEPT !.main = "routes", !.loop = "wait",
                                       !.polls = @ + 1]
                  ELSE [polling EXCEPT !.loop = "wait", !.polls = @ + 1]
    /\ UNCHANGED <<proxyVars, rlVars, model_aliases_id_seq, mgmt, listCall>>

\* case <-ticker.C: pollModels(ctx)
TickerFires ==
    /\ polling.loop = "wait"
    /\ polling.polls < MaxPolls
    /\ \E keys \in PolledKeys :
          polling' = [polling EXCEPT !.loop = "poll", !.keys = keys, !.next = 1]
    /\ UNCHANGED <<proxyVars, rlVars, model_aliases_id_seq, mgmt, listCall>>

\* The routes are registered and http.ListenAndServe(":"+port, r) is entered;
\* it may fail at once (os.Exit(1)).
ListenAndServe ==
    /\ polling.main = "routes"
    /\ \E bound \in BOOLEAN :
          polling' = IF bound
                     THEN [polling EXCEPT !.main = "serve"]
                     ELSE [polling EXCEPT !.main = "exit", !.loop = "exit"]
    /\ UNCHANGED <<proxyVars, rlVars, model_aliases_id_seq, mgmt, listCall>>

\* The server accepts a request.
Accept ==
    /\ polling.main = "serve"
    /\ polling.accepted < MaxArrivals
    /\ polling' = [polling EXCEPT !.accepted = @ + 1]
    /\ UNCHANGED <<proxyVars, rlVars, model_aliases_id_seq, mgmt, listCall>>

\* A shutdown signal arrives. main installs no handler and the context of
\* the polling is context.Background(), which is never done: the process
\* ends, and every goroutine with it.
Shutdown ==
    /\ polling.main \in {"init", "poll", "routes", "serve"}
    /\ polling' = [polling EXCEPT !.main = "exit",
                                  !.loop = IF @ = "none" THEN @ ELSE "exit",
                                  !.signalled = TRUE]
    /\ UNCHANGED <<proxyVars, rlVars, model_aliases_id_seq, mgmt, listCall>>

InitMP ==
    /\ ProxyIdle
    /\ RLIdle
    /\ model_aliases_id_seq = 0
    /\ mgmt = NoCall
    /\ listCall = NoListCall
    /\ polling = [main |-> "init", loop |-> "none", keys |-> <<>>, next |-> 1,
                  catalog |-> {}, polls |-> 0, accepted |-> 0, signalled |-> FALSE]

NextMP ==
    \/ StartModelPolling
    \/ PollKey
    \/ PollReturn
    \/ TickerFires
    \/ ListenAndServe
    \/ Accept
    \/ Shutdown

SpecMP == InitMP /\ [][NextMP]_vars

(***************************************************************************)
(* C38: the catalog refresh and request serving                            *)
(***************************************************************************)
\* C38: the catalog refresh runs on its own timer loop, started at process
\* start and stopped on the shutdown signal, and never blocks request
\* serving: every poll runs in the loop's goroutine, and main reaches
\* ListenAndServe without waiting for a poll to complete.
C38_PollingOffTheServingPath ==
    /\ polling.main # "poll"
    /\ polling.main = "serve" => polling.loop \in {"wait", "poll"}
    /\ polling.signalled => polling.loop \in {"none", "exit"}
    /\ polling.accepted > 0 => polling.main \in {"serve", "exit"}
====
